---- MODULE Spec2Model ----
(***************************************************************************)
(* Pagination walker (scrape_search_pages of the BeautifulSoup, proxy and  *)
(* single-asset scrapers) and deduplicating asset fetcher                  *)
(* (_download_ad_assets_with_dedup of the complete and API scrapers),      *)
(* with the API walker and its HTML fallback, the request helpers, the     *)
(* detail-page scraper and the URL and token helpers.                      *)
(*                                                                         *)
(* The listing endpoint, the detail pages and the download transport are   *)
(* the environment: every response is a nondeterministic choice.           *)
(***************************************************************************)
EXTENDS Integers, Sequences, FiniteSets, TLC

\* ---------------------------------------------------------------- bounds
NumTokens == 3      \* distinct continuation tokens the endpoint can hand out
NumIds == 4         \* distinct ad ids the endpoint can serve
MaxPageLen == 2     \* detail-link matches in one listing page
MaxTarget == 3      \* largest max_results passed to the walker
NumAds == 1         \* ads whose assets are materialized
NumResources == 1   \* distinct media resources behind the asset URLs
NumSigs == 1        \* distinct signing query strings on one asset path
MaxBundle == 2      \* asset URLs (logo included) of one ad
MaxCalls == 2       \* materialization calls in one process
MaxRun == 11        \* most ad ids the walker hands to scrape_complete
MaxPathLen == 3     \* path segments of a URL handed to the URL helpers
MaxGroup == 3       \* renditions in one group of video URLs
PageCap == 3          \* page count the API walker's printed counter saturates at
ResultsPerPage == 2   \* results_per_page of the HTML fallback, in model page sizes
NumFallbackIds == 2   \* distinct ads the HTML fallback pages can list
NumProxies == 2       \* most proxies the scraper is built with
MaxTokLen == 3        \* characters of a continuation token

\* ------------------------------------------------------ program constants
MaxPages == 100     \* safety limit on page_num
MaxRetries == 3      \* retries of a rate-limited listing request
BaseWait == 5        \* seconds slept before the first retry
SavePeriod == 10    \* scrape_complete saves progress every 10th item
max_retries == 3     \* attempts of one _make_request call

\* Optional[str] continuation token: None, the empty string, or a token.
NoneTok == 0 - 1
EmptyTok == 0
Tokens == 1..NumTokens
TokenValues == {NoneTok, EmptyTok} \cup Tokens
Ids == 1..NumIds

\* Python truthiness of an Optional[str].
Truthy(t) == t > EmptyTok

Min(a, b) == IF a <= b THEN a ELSE b
CeilDiv(a, b) == (a + b - 1) \div b
Range(s) == {s[i] : i \in 1..Len(s)}
IsDupFree(s) == \A i, j \in 1..Len(s) : i # j => s[i] # s[j]

\* Sequences over S of length at most n.
SeqsUpTo(S, n) == UNION {[1..k -> S] : k \in 0..n}

\* ------------------------------------------------------------ walker state
VARIABLES
    pc,                 \* "loop" at the top of the while loop, "done" after it
    max_results,        \* argument of scrape_search_pages
    all_ad_ids,         \* accumulated ad ids (the returned list once done)
    pagination_token,   \* token the next fetch will use
    page_num,           \* page counter, starts at 1
    seen_tokens,        \* tokens already used for a fetch
    data,               \* response of the latest listing fetch
    stop,               \* which exit of the loop was taken ("" while running)
    fetchLog,           \* history: token passed to each listing fetch, in order
    firstSeen,          \* history: ids of all fetched pages, first occurrences only
    maxPage,            \* history: largest number of ids on a fetched page
    minNew              \* history: least number of unseen ids on a fetched page

walkVars == <<pc, max_results, all_ad_ids, pagination_token, page_num,
              seen_tokens, data, stop, fetchLog, firstSeen, maxPage, minNew>>

\* ------------------------------------------------------ asset fetcher state
VARIABLES
    seen_assets,        \* self.seen_assets: per kind, identity -> local path
    calls,              \* number of materialization calls made so far
    call                \* the latest call: arguments, result, download attempts
                        \* (repeat: same arguments as the call before it,
                        \* all of whose downloads had succeeded)

assetVars == <<seen_assets, calls, call>>

\* ------------------------------------------------- scrape_complete state
VARIABLES
    rpc,                \* position in scrape_complete ("idle" when not running)
    cookies_state,      \* how the cookie prerequisite went
    download_assets,    \* argument of scrape_complete
    run_ids,            \* ad_ids: what scrape_search_pages returned
    all_details,        \* records appended so far
    last_detail,        \* outcome of the latest detail fetch
    output_json,        \* the output file: state and the records it holds
    writes,             \* history: every attempt to write the output file
    net,                \* history: kinds of network request made by the run
    result,             \* what scrape_complete returned ("unset" before)
    run_exit            \* which return of scrape_complete was taken

runVars == <<rpc, cookies_state, download_assets, run_ids, all_details, last_detail,
             output_json, writes, net, result, run_exit>>

\* ------------------------------------------- fetch_pagination_page state
VARIABLES
    fpc,                \* "request" while a call is trying, "done" after it
    f_token,            \* pagination_token argument of the call
    retry_count,        \* retry_count argument of the current attempt
    requests,           \* history: requests issued by the call
    waits,              \* history: seconds slept before each retry
    f_status,           \* status of the latest response
    f_result            \* what the call returned ("unset" before)

retryVars == <<fpc, f_token, retry_count, requests, waits, f_status, f_result>>

\* --------------------------------------------- URL helper functions state
VARIABLES
    fn_in,              \* arguments handed to the helper
    fn_out              \* what it returned (op "unset" before the call)

fnVars == <<fn_in, fn_out>>

\* ------------------------------------------------------- run-wide history
VARIABLES
    download_log,       \* history: every download attempted by the run of the
                        \* BeautifulSoup scraper
    aborted             \* history: an exception has left scrape_complete

logVars == <<download_log, aborted>>

\* ----------------------------- scrape_search_pages_api and its fallback
\* The locals the API walker shares with scrape_search_pages (max_results,
\* all_ads, pagination_token, page_num, data) are the walker variables above.
VARIABLES
    fallback_to_html,   \* self.fallback_to_html
    start,              \* offset of the next fallback fetch
    fb_all_ads,         \* all_ads of scrape_search_pages_html_fallback
    fb_log,             \* history: offset and ads of every fallback fetch
    returned,           \* history: continuation tokens handed back so far
    token_repeated,     \* history: a token handed back earlier came back
    api_result          \* the list the walker returned (once done)

apiVars == <<fallback_to_html, start, fb_all_ads, fb_log, returned,
             token_repeated, api_result>>

\* ------------------------------------------------------ _make_request state
VARIABLES
    mpc,                \* "entry", "request" inside the for loop, "done"
    method,             \* method argument of the call
    proxies,            \* len(self.proxies)
    current_proxy_index,\* self.current_proxy_index
    proxy,              \* proxy in use (0: none), position in self.proxies
    attempt,            \* loop variable of the for loop
    sent,               \* history: proxy and outcome of every HTTP request
    slept,              \* history: seconds slept, in order
    m_result            \* what the call returned (kind "unset" before)

mrVars == <<mpc, method, proxies, current_proxy_index, proxy, attempt, sent,
            slept, m_result>>

vars == <<walkVars, assetVars, runVars, retryVars, fnVars, logVars, apiVars,
          mrVars>>

exceptWalk == <<assetVars, runVars, retryVars, fnVars, logVars, apiVars,
    mrVars>>
exceptAsset == <<walkVars, runVars, retryVars, fnVars, logVars, apiVars,
    mrVars>>
exceptRun == <<walkVars, assetVars, retryVars, fnVars, logVars, apiVars,
    mrVars>>
exceptRetry == <<walkVars, assetVars, runVars, fnVars, logVars, apiVars,
    mrVars>>
exceptFn == <<walkVars, assetVars, runVars, retryVars, logVars, apiVars,
    mrVars>>
exceptMr == <<walkVars, assetVars, runVars, retryVars, fnVars, logVars, apiVars>>
exceptApi == <<assetVars, runVars, retryVars, fnVars, logVars,
    mrVars>>
exceptAssetAndLog == <<walkVars, runVars, retryVars, fnVars, apiVars,
    mrVars>>

\* extract_ad_ids_from_html: regex matches, first occurrence of each id kept.
RECURSIVE ExtractAdIds(_)
ExtractAdIds(matches) ==
    IF matches = <<>> THEN <<>>
    ELSE LET front == ExtractAdIds(SubSeq(matches, 1, Len(matches) - 1))
             last == matches[Len(matches)]
         IN IF last \in Range(front) THEN front ELSE Append(front, last)

\* Mutant: the "not in all_ad_ids" test is dropped.
RECURSIVE Accumulate_NoMembership(_, _, _)
Accumulate_NoMembership(acc, ad_ids, limit) ==
    IF ad_ids = <<>> \/ Len(acc) >= limit THEN acc
    ELSE Accumulate_NoMembership(Append(acc, Head(ad_ids)), Tail(ad_ids), limit)

\* Mutant: the "len(all_ad_ids) >= max_results: break" test is dropped.
RECURSIVE Accumulate_NoLimit(_, _, _)
Accumulate_NoLimit(acc, ad_ids, limit) ==
    IF ad_ids = <<>> THEN acc
    ELSE Accumulate_NoLimit(IF Head(ad_ids) \in Range(acc) THEN acc
                            ELSE Append(acc, Head(ad_ids)),
                            Tail(ad_ids), limit)

\* The for loop over ad_ids: stop at max_results, skip ids already collected.
RECURSIVE Accumulate(_, _, _)
Accumulate(acc, ad_ids, limit) ==
    IF ad_ids = <<>> \/ Len(acc) >= limit THEN acc
    ELSE Accumulate(IF Head(ad_ids) \in Range(acc) THEN acc
                    ELSE Append(acc, Head(ad_ids)),
                    Tail(ad_ids), limit)

\* What a listing fetch can return: no data, a body without html, or a body
\* with html (its detail-link matches) and a paginationToken field.
NoResponse == [kind |-> "unset", matches |-> <<>>, token |-> NoneTok]

Responses ==
    {[kind |-> "none", matches |-> <<>>, token |-> NoneTok],
     [kind |-> "nohtml", matches |-> <<>>, token |-> NoneTok]}
    \cup [kind : {"page"}, matches : SeqsUpTo(Ids, MaxPageLen), token : TokenValues]

\* Mutant: off by one in the while condition.
LoopCondition_OffByOne(ids, limit) == Len(ids) <= limit

\* while len(all_ad_ids) < max_results
LoopCondition(ids, limit) == Len(ids) < limit

\* Mutant: the loop guard never fires.
TokenAlreadySeen_Never(tok, seen) == FALSE

\* if pagination_token and pagination_token in seen_tokens: break
TokenAlreadySeen(tok, seen) == Truthy(tok) /\ tok \in seen

\* Mutant: the used token is not recorded.
SeenAfterGuard_NoAdd(tok, seen) == seen

\* if pagination_token: seen_tokens.add(pagination_token)
SeenAfterGuard(tok, seen) == IF Truthy(tok) THEN seen \cup {tok} ELSE seen

\* Mutant: a page of known ids never ends the walk.
NoNewAdsStop_Never(added, tok, seen) == FALSE

\* ads_added == 0 and the current token is in seen_tokens: break
NoNewAdsStop(added, tok, seen) == added = 0 /\ Truthy(tok) /\ tok \in seen

\* Mutant: the stuck-token test is dropped.
StuckOnToken_Never(next_token, tok) == FALSE

\* if next_token == pagination_token: break
StuckOnToken(next_token, tok) == next_token = tok

SafetyLimit_OffByOne(page) == page > MaxPages + 1

\* if page_num > 100
SafetyLimit(page) == page > MaxPages

\* Mutant: a fetch without data is not noticed.
NoData_Never(resp) == FALSE

\* if not data: break
NoData(resp) == resp.kind = "none"

\* Mutant: every page without ad ids ends the walk.
EndOfResults_AnyEmptyPage(ad_ids, token) == ad_ids = <<>>

\* if not ad_ids: if not data.get("paginationToken"): break
EndOfResults(ad_ids, token) == ad_ids = <<>> /\ ~Truthy(token)

\* Rest of the loop body once the response is there.  Yields the new values
\* of the locals and the exit taken ("" when the loop goes round again).
Body(resp, tok, ids, page, seen, limit) ==
    LET ad_ids == ExtractAdIds(resp.matches)
        acc == IF ad_ids = <<>> THEN ids ELSE Accumulate(ids, ad_ids, limit)
        next_token == resp.token
    IN  IF NoData(resp)
            THEN [ids |-> ids, tok |-> tok, page |-> page, stop |-> "fetch_failed"]
        ELSE IF resp.kind = "nohtml"
            THEN [ids |-> ids, tok |-> tok, page |-> page, stop |-> "no_html"]
        ELSE IF EndOfResults(ad_ids, resp.token)
            THEN [ids |-> ids, tok |-> tok, page |-> page, stop |-> "end_of_results"]
        ELSE IF ad_ids # <<>> /\ NoNewAdsStop(Len(acc) - Len(ids), tok, seen)
            THEN [ids |-> acc, tok |-> tok, page |-> page, stop |-> "no_new_ads"]
        ELSE IF StuckOnToken(next_token, tok)
            THEN [ids |-> acc, tok |-> tok, page |-> page, stop |-> "same_token"]
        ELSE IF ~Truthy(next_token)
            THEN [ids |-> acc, tok |-> next_token, page |-> page,
                  stop |-> "no_more_pages"]
        ELSE IF SafetyLimit(page + 1)
            THEN [ids |-> acc, tok |-> next_token, page |-> page + 1,
                  stop |-> "safety_limit"]
        ELSE [ids |-> acc, tok |-> next_token, page |-> page + 1, stop |-> ""]

\* ------------------------------------------------------------- asset URLs
\* An asset URL is scheme://host/<res>/<q>p segment/<file of res>?<sig>:
\* res names the media resource, q is the number in the quality segment of
\* the path and sig the signing query string.
Resources == 1..NumResources
Quals == {360, 720}
Sigs == 1..NumSigs
Urls == [res : Resources, q : Quals, sig : Sigs]
NoUrl == [res |-> 0, q |-> 0, sig |-> 0]
Ads == 1..NumAds
NoPath == [ad |-> 0, kind |-> "none", name |-> 0, index |-> 0]

\* _normalize_url: scheme, host and path; the query string is dropped.
NormalizeUrl(url) == [url EXCEPT !.sig = 0]

\* _get_video_base_path: the quality segment is cut out of the path as well.
VideoBasePath(url) == [url EXCEPT !.sig = 0, !.q = 0]

\* max([int(m) for m in re.findall(r'(\d+)p', x)] + [0])
Quality(url) == IF url.q > 0 THEN url.q ELSE 0

\* The key an asset of a kind is cached under.
Identity(url, kind) ==
    IF kind = "video" THEN VideoBasePath(url) ELSE NormalizeUrl(url)

\* asset_type + "s": the partition of seen_assets (and slot of the result).
AssetKey(kind) ==
    CASE kind = "logo" -> "logos"
      [] kind = "image" -> "images"
      [] kind = "video" -> "videos"
      [] kind = "poster" -> "posters"

\* dict assignment m[k] = v
Put(m, k, v) == [x \in (DOMAIN m) \cup {k} |-> IF x = k THEN v ELSE m[x]]

\* Mutant: videos are looked up by normalized URL instead of base path.
IsDuplicateAsset_VideoByUrl(url, kind, seen) ==
    LET key == NormalizeUrl(url)
        m == seen[AssetKey(kind)]
    IN  IF key \in DOMAIN m THEN [dup |-> TRUE, path |-> m[key]]
        ELSE [dup |-> FALSE, path |-> NoPath]

\* _is_duplicate_asset: (is_duplicate, existing_path)
IsDuplicateAsset(url, kind, seen) ==
    LET key == IF kind = "video" THEN VideoBasePath(url) ELSE NormalizeUrl(url)
        m == seen[AssetKey(kind)]
    IN  IF key \in DOMAIN m THEN [dup |-> TRUE, path |-> m[key]]
        ELSE [dup |-> FALSE, path |-> NoPath]

\* os.path.join(ad_dir, <kind dir>, _generate_filename(url, kind, ad_id, index)):
\* the ad, the kind, the sanitized last path part of the URL and the index.
GenPath(url, kind, ad, index) ==
    [ad |-> ad, kind |-> kind, name |-> url.res, index |-> index]

\* Mutant: the identity is cached without looking at the download's outcome.
Register_Always(seen, kind, key, path, ok) ==
    [seen EXCEPT ![AssetKey(kind)] = Put(@, key, path)]

\* Mutant: nothing is ever cached.
Register_Never(seen, kind, key, path, ok) == seen

\* if self._download_asset(url, path): ... self.seen_assets[kind][key] = path
Register(seen, kind, key, path, ok) ==
    IF ok THEN [seen EXCEPT ![AssetKey(kind)] = Put(@, key, path)] ELSE seen

\* downloaded["logo"] = path / downloaded[kind].append(path)
Store(downloaded, kind, path) ==
    IF kind = "logo" THEN [downloaded EXCEPT !.logo = path]
    ELSE [downloaded EXCEPT ![AssetKey(kind)] = Append(@, path)]

\* One asset slot: reuse the cached path when check_url is a duplicate,
\* otherwise download get_url and, on success, cache it under key.
\* oc[n] is the outcome of the n-th download attempt of the call.
OneAsset(st, check_url, get_url, kind, key, index, ad, oc) ==
    LET d == IsDuplicateAsset(check_url, kind, st.seen)
        path == GenPath(get_url, kind, ad, index)
        ok == oc[Len(st.attempts) + 1]
        cached == Identity(get_url, kind) \in DOMAIN st.seen[AssetKey(kind)]
    IN  IF d.dup /\ d.path # NoPath
        THEN [st EXCEPT !.downloaded = Store(@, kind, d.path)]
        ELSE [seen |-> Register(st.seen, kind, key, path, ok),
              downloaded |-> IF ok THEN Store(st.downloaded, kind, path)
                             ELSE st.downloaded,
              attempts |-> Append(st.attempts,
                             [kind |-> kind, url |-> get_url, path |-> path,
                              ok |-> ok, cached |-> cached])]

\* for i, url in enumerate(assets[kind], 1): images and posters
RECURSIVE FetchList(_, _, _, _, _, _)
FetchList(st, urls, i, kind, ad, oc) ==
    IF i > Len(urls) THEN st
    ELSE FetchList(OneAsset(st, urls[i], urls[i], kind, NormalizeUrl(urls[i]),
                            i, ad, oc),
                   urls, i + 1, kind, ad, oc)

\* Keys of video_groups in insertion order.
RECURSIVE VideoGroupKeys(_)
VideoGroupKeys(videos) ==
    IF videos = <<>> THEN <<>>
    ELSE LET front == VideoGroupKeys(SubSeq(videos, 1, Len(videos) - 1))
             key == VideoBasePath(videos[Len(videos)])
         IN IF key \in Range(front) THEN front ELSE Append(front, key)

\* video_groups[base_path]
GroupUrls(videos, base_path) ==
    SelectSeq(videos, LAMBDA v : VideoBasePath(v) = base_path)

\* max(video_urls, key=quality): the first URL of maximal quality.
BestUrl(video_urls) ==
    video_urls[CHOOSE i \in 1..Len(video_urls) :
        \A j \in 1..Len(video_urls) :
            /\ Quality(video_urls[j]) <= Quality(video_urls[i])
            /\ j < i => Quality(video_urls[j]) < Quality(video_urls[i])]

\* for base_path, video_urls in video_groups.items()
RECURSIVE FetchVideos(_, _, _, _, _)
FetchVideos(st, keys, videos, ad, oc) ==
    IF keys = <<>> THEN st
    ELSE LET video_urls == GroupUrls(videos, Head(keys))
         IN FetchVideos(OneAsset(st, video_urls[1], BestUrl(video_urls), "video",
                                 Head(keys), Len(st.downloaded.videos) + 1,
                                 ad, oc),
                        Tail(keys), videos, ad, oc)

EmptyDownloaded ==
    [logo |-> NoPath, images |-> <<>>, videos |-> <<>>, posters |-> <<>>]

\* Mutant: a failed logo download ends the call.
DownloadAdAssetsWithDedup_AbortOnFailure(seen, ad, logo_url, assets, oc) ==
    LET st0 == [seen |-> seen, downloaded |-> EmptyDownloaded, attempts |-> <<>>]
        st1 == IF logo_url # NoUrl
               THEN OneAsset(st0, logo_url, logo_url, "logo",
                             NormalizeUrl(logo_url), 0, ad, oc)
               ELSE st0
        st2 == FetchList(st1, assets.images, 1, "image", ad, oc)
        st3 == FetchVideos(st2, VideoGroupKeys(assets.videos), assets.videos,
                           ad, oc)
    IN  IF \E i \in 1..Len(st1.attempts) : ~st1.attempts[i].ok THEN st1
        ELSE FetchList(st3, assets.posters, 1, "poster", ad, oc)

\* _download_ad_assets_with_dedup: logo, images, videos, posters in turn.
DownloadAdAssetsWithDedup(seen, ad, logo_url, assets, oc) ==
    LET st0 == [seen |-> seen, downloaded |-> EmptyDownloaded, attempts |-> <<>>]
        st1 == IF logo_url # NoUrl
               THEN OneAsset(st0, logo_url, logo_url, "logo",
                             NormalizeUrl(logo_url), 0, ad, oc)
               ELSE st0
        st2 == FetchList(st1, assets.images, 1, "image", ad, oc)
        st3 == FetchVideos(st2, VideoGroupKeys(assets.videos), assets.videos,
                           ad, oc)
    IN  FetchList(st3, assets.posters, 1, "poster", ad, oc)

\* One list of _deduplicate_assets: the first URL of every identity is kept.
RECURSIVE DedupUrls(_, _)
DedupUrls(urls, kind) ==
    IF urls = <<>> THEN <<>>
    ELSE LET front == DedupUrls(SubSeq(urls, 1, Len(urls) - 1), kind)
             last == urls[Len(urls)]
         IN IF \E i \in 1..Len(front) : Identity(front[i], kind) = Identity(last, kind)
            THEN front ELSE Append(front, last)

\* _deduplicate_assets, applied by _extract_assets_from_html before returning.
DeduplicateAssets(assets) ==
    [images |-> DedupUrls(assets.images, "image"),
     videos |-> DedupUrls(assets.videos, "video"),
     posters |-> DedupUrls(assets.posters, "poster")]

\* Asset bundles and call arguments of at most MaxBundle URLs.
AssetBundles ==
    {b \in [images : SeqsUpTo(Urls, MaxBundle), videos : SeqsUpTo(Urls, MaxBundle),
            posters : SeqsUpTo(Urls, MaxBundle)] :
        Len(b.images) + Len(b.videos) + Len(b.posters) <= MaxBundle}
CallArgs ==
    {a \in [logo : Urls \cup {NoUrl}, assets : AssetBundles] :
        (IF a.logo = NoUrl THEN 0 ELSE 1) + Len(a.assets.images)
            + Len(a.assets.videos) + Len(a.assets.posters) <= MaxBundle}
Outcomes == [1..MaxBundle -> BOOLEAN]

NoCall ==
    [ad |-> 0, logo |-> NoUrl,
     raw |-> [images |-> <<>>, videos |-> <<>>, posters |-> <<>>],
     assets |-> [images |-> <<>>, videos |-> <<>>, posters |-> <<>>],
     downloaded |-> EmptyDownloaded, attempts |-> <<>>, repeat |-> FALSE]

\* The latest call c had the arguments (ad id, logo URL, bundle) of call d.
SameArgs(c, d) == c.ad = d.ad /\ c.logo = d.logo /\ c.assets = d.assets

\* Every download the call attempted succeeded.
AllSucceeded(c) == \A i \in 1..Len(c.attempts) : c.attempts[i].ok

\* __init__: nothing cached, nothing materialized.
AssetInit ==
    /\ seen_assets = [logos |-> <<>>, images |-> <<>>, videos |-> <<>>,
                      posters |-> <<>>]
    /\ calls = 0
    /\ call = NoCall

\* Entry of scrape_search_pages.
WalkInit ==
    /\ pc = "loop"
    /\ max_results \in 0..MaxTarget
    /\ all_ad_ids = <<>>
    /\ pagination_token = NoneTok
    /\ page_num = 1
    /\ seen_tokens = {}
    /\ data = NoResponse
    /\ stop = ""
    /\ fetchLog = <<>>
    /\ firstSeen = <<>>
    /\ maxPage = 0
    /\ minNew = MaxPageLen + 1

\* The walker is not running.
WalkIdle ==
    /\ pc = "idle"
    /\ max_results = 0
    /\ all_ad_ids = <<>>
    /\ pagination_token = NoneTok
    /\ page_num = 1
    /\ seen_tokens = {}
    /\ data = NoResponse
    /\ stop = ""
    /\ fetchLog = <<>>
    /\ firstSeen = <<>>
    /\ maxPage = 0
    /\ minNew = MaxPageLen + 1

\* scrape_complete is not running.
RunIdle ==
    /\ rpc = "idle"
    /\ cookies_state = "unset"
    /\ download_assets = FALSE
    /\ run_ids = <<>>
    /\ all_details = <<>>
    /\ last_detail = "none"
    /\ output_json = [state |-> "absent", content |-> <<>>]
    /\ writes = <<>>
    /\ net = {}
    /\ result = "unset"
    /\ run_exit = ""

\* No call of fetch_pagination_page is under way.
RetryIdle ==
    /\ fpc = "idle"
    /\ f_token = NoneTok
    /\ retry_count = 0
    /\ requests = 0
    /\ waits = <<>>
    /\ f_status = "none"
    /\ f_result = "unset"

\* No helper call is under way.
FnIdle ==
    /\ fn_in = [op |-> "none"]
    /\ fn_out = [op |-> "unset"]

\* Nothing has been downloaded yet.
LogIdle == download_log = <<>> /\ aborted = FALSE

\* No call of _make_request is under way.
MrIdle ==
    /\ mpc = "idle"
    /\ method = "GET"
    /\ proxies = 0
    /\ current_proxy_index = 0
    /\ proxy = 0
    /\ attempt = 0
    /\ sent = <<>>
    /\ slept = <<>>
    /\ m_result = [kind |-> "unset"]

\* The API walker is not running.
ApiIdle ==
    /\ fallback_to_html = TRUE
    /\ start = 0
    /\ fb_all_ads = <<>>
    /\ fb_log = <<>>
    /\ returned = {}
    /\ token_repeated = FALSE
    /\ api_result = <<>>

Init == WalkInit /\ AssetInit /\ RunIdle /\ RetryIdle /\ FnIdle /\ LogIdle
    /\ ApiIdle /\ MrIdle

\* A process that has built the scraper and is not walking result pages.
IdleInit == WalkIdle /\ AssetInit /\ RunIdle /\ RetryIdle /\ FnIdle /\ LogIdle
    /\ ApiIdle /\ MrIdle

\* The while condition is false: the loop ends and the list is returned.
LoopExit ==
    /\ pc = "loop"
    /\ ~LoopCondition(all_ad_ids, max_results)
    /\ pc' = "done"
    /\ stop' = "target_reached"
    /\ UNCHANGED <<max_results, all_ad_ids, pagination_token, page_num,
                   seen_tokens, data, fetchLog, firstSeen, maxPage, minNew>>
    /\ UNCHANGED exceptWalk

\* The token about to be used was used before: break without fetching.
LoopGuard ==
    /\ pc = "loop"
    /\ LoopCondition(all_ad_ids, max_results)
    /\ TokenAlreadySeen(pagination_token, seen_tokens)
    /\ pc' = "done"
    /\ stop' = "token_seen"
    /\ UNCHANGED <<max_results, all_ad_ids, pagination_token, page_num,
                   seen_tokens, data, fetchLog, firstSeen, maxPage, minNew>>
    /\ UNCHANGED exceptWalk

\* One pass through the loop body: mark the token, fetch, process the page.
FetchPage(resp) ==
    /\ pc = "loop"
    /\ LoopCondition(all_ad_ids, max_results)
    /\ ~TokenAlreadySeen(pagination_token, seen_tokens)
    /\ LET seen == SeenAfterGuard(pagination_token, seen_tokens)
           out == Body(resp, pagination_token, all_ad_ids, page_num, seen,
                       max_results)
           ad_ids == ExtractAdIds(resp.matches)
           fresh == Cardinality(Range(ad_ids) \ Range(firstSeen))
       IN  /\ seen_tokens' = seen
           /\ data' = resp
           /\ fetchLog' = Append(fetchLog, pagination_token)
           /\ all_ad_ids' = out.ids
           /\ pagination_token' = out.tok
           /\ page_num' = out.page
           /\ stop' = out.stop
           /\ pc' = IF out.stop = "" THEN "loop" ELSE "done"
           /\ IF resp.kind = "page"
              THEN /\ firstSeen' = ExtractAdIds(firstSeen \o ad_ids)
                   /\ maxPage' = IF Len(ad_ids) > maxPage THEN Len(ad_ids) ELSE maxPage
                   /\ minNew' = Min(minNew, fresh)
              ELSE UNCHANGED <<firstSeen, maxPage, minNew>>
    /\ UNCHANGED max_results
    /\ UNCHANGED exceptWalk

Next ==
    \/ LoopExit
    \/ LoopGuard
    \/ \E resp \in Responses : FetchPage(resp)

Spec == Init /\ [][Next]_vars

\* The interpreter always runs the next statement of the loop.
FairSpec == Spec /\ WF_vars(Next)

\* A listing endpoint that can go on for ever: besides no token, the token
\* just used and a token used earlier, every page can carry a token never
\* handed out before (the least unused number); a page has no id or one.
FreshToken ==
    Cardinality(SeenAfterGuard(pagination_token, seen_tokens)) + 1

EndlessResponses ==
    {[kind |-> "none", matches |-> <<>>, token |-> NoneTok],
     [kind |-> "nohtml", matches |-> <<>>, token |-> NoneTok]}
    \cup [kind : {"page"},
          matches : {<<>>} \cup {<<i>> : i \in Ids},
          token : {NoneTok, EmptyTok, FreshToken}
                  \cup {t \in {1, pagination_token} : Truthy(t)}]

EndlessNext ==
    \/ LoopExit
    \/ LoopGuard
    \/ \E resp \in EndlessResponses : FetchPage(resp)

EndlessSpec == Init /\ [][EndlessNext]_vars

\* ------------------------------------ walker of the API scraper (file 10)
\* ads[:max_results - len(all_ads)] appended to all_ads
Extend(all_ads, ads, limit) ==
    all_ads \o SubSeq(ads, 1, Min(Len(ads), limit - Len(all_ads)))

\* page_num is only printed by the API walker; the count saturates here.
NextPageNum(page) == Min(page + 1, PageCap)

FallbackStart_Carry(all_ads) == all_ads

\* all_ads = [] at the top of scrape_search_pages_html_fallback
FallbackStart(all_ads) == <<>>

\* One pass through the loop body of scrape_search_pages_api once
\* fetch_pagination_page has answered.  There is no set of used tokens.
ApiBody(resp, tok, all_ads, page, limit, fallback) ==
    LET ads == resp.matches
        acc == IF ads = <<>> THEN all_ads ELSE Extend(all_ads, ads, limit)
    IN  IF resp.kind = "none"
            THEN [ads |-> all_ads, tok |-> tok, page |-> page,
                  stop |-> IF fallback THEN "fallback" ELSE "fetch_failed"]
        ELSE IF resp.kind = "nohtml"
            THEN [ads |-> all_ads, tok |-> tok, page |-> page, stop |-> "no_html"]
        ELSE IF ads = <<>> /\ ~Truthy(resp.token)
            THEN [ads |-> all_ads, tok |-> tok, page |-> page,
                  stop |-> "end_of_results"]
        ELSE IF ~Truthy(resp.token)
            THEN [ads |-> acc, tok |-> resp.token, page |-> page,
                  stop |-> "no_more_pages"]
        ELSE [ads |-> acc, tok |-> resp.token, page |-> NextPageNum(page),
              stop |-> ""]

\* What a fallback fetch can yield: a failed request (status other than 200
\* or an exception) or the ads of the page.
FallbackPages ==
    {[ok |-> FALSE, ads |-> <<>>]} \cup [ok : {TRUE}, ads : SeqsUpTo(1..NumFallbackIds, MaxPageLen)]

\* Entry of scrape_search_pages_api.
ApiInit ==
    /\ fallback_to_html \in BOOLEAN
    /\ start = 0
    /\ fb_all_ads = <<>>
    /\ fb_log = <<>>
    /\ returned = {}
    /\ token_repeated = FALSE
    /\ api_result = <<>>

ApiStartInit == WalkInit /\ AssetInit /\ RunIdle /\ RetryIdle /\ FnIdle /\ LogIdle
    /\ ApiInit /\ MrIdle

\* The while condition of the API walker is false: all_ads is returned.
ApiLoopExit ==
    /\ pc = "loop"
    /\ ~LoopCondition(all_ad_ids, max_results)
    /\ pc' = "done"
    /\ stop' = "target_reached"
    /\ api_result' = all_ad_ids
    /\ UNCHANGED <<max_results, all_ad_ids, pagination_token, page_num,
                   seen_tokens, data, fetchLog, firstSeen, maxPage, minNew>>
    /\ UNCHANGED <<fallback_to_html, start, fb_all_ads, fb_log, returned,
                   token_repeated>>
    /\ UNCHANGED exceptApi

\* One pass through the loop body of the API walker.  A failed fetch with the
\* fallback enabled enters scrape_search_pages_html_fallback, whose result is
\* returned; every other exit returns all_ads.
ApiFetchPage(resp) ==
    /\ pc = "loop"
    /\ LoopCondition(all_ad_ids, max_results)
    /\ LET out == ApiBody(resp, pagination_token, all_ad_ids, page_num,
                          max_results, fallback_to_html)
       IN  /\ data' = resp
           /\ all_ad_ids' = out.ads
           /\ pagination_token' = out.tok
           /\ page_num' = out.page
           /\ stop' = out.stop
           /\ pc' = IF out.stop = "" THEN "loop"
                    ELSE IF out.stop = "fallback" THEN "fallback" ELSE "done"
           /\ fb_all_ads' = IF out.stop = "fallback" THEN FallbackStart(all_ad_ids)
                            ELSE fb_all_ads
           /\ api_result' = IF out.stop \in {"", "fallback"} THEN api_result
                            ELSE out.ads
    /\ returned' = IF resp.kind = "page" /\ Truthy(resp.token)
                   THEN returned \cup {resp.token} ELSE returned
    /\ token_repeated' = (token_repeated
                          \/ (resp.kind = "page" /\ Truthy(resp.token)
                              /\ resp.token \in returned))
    /\ UNCHANGED <<max_results, seen_tokens, fetchLog, firstSeen, maxPage, minNew>>
    /\ UNCHANGED <<fallback_to_html, start, fb_log>>
    /\ UNCHANGED exceptApi

\* The while condition of the fallback is false: its all_ads is returned.
FallbackExit ==
    /\ pc = "fallback"
    /\ ~LoopCondition(fb_all_ads, max_results)
    /\ pc' = "done"
    /\ api_result' = fb_all_ads
    /\ UNCHANGED <<max_results, all_ad_ids, pagination_token, page_num,
                   seen_tokens, data, stop, fetchLog, firstSeen, maxPage, minNew>>
    /\ UNCHANGED <<fallback_to_html, start, fb_all_ads, fb_log, returned,
                   token_repeated>>
    /\ UNCHANGED exceptApi

\* One pass through the loop body of scrape_search_pages_html_fallback: the
\* page at offset start is fetched; the loop ends on a failed request, on a
\* page without ads and after a page shorter than results_per_page.
FallbackFetch(page) ==
    /\ pc = "fallback"
    /\ LoopCondition(fb_all_ads, max_results)
    /\ fb_log' = Append(fb_log, [start |-> start, ok |-> page.ok, ads |-> page.ads])
    /\ LET acc == IF page.ok /\ page.ads # <<>>
                  THEN Extend(fb_all_ads, page.ads, max_results) ELSE fb_all_ads
           last == ~page.ok \/ page.ads = <<>> \/ Len(page.ads) < ResultsPerPage
       IN  /\ fb_all_ads' = acc
           /\ start' = IF last THEN start ELSE start + ResultsPerPage
           /\ pc' = IF last THEN "done" ELSE "fallback"
           /\ api_result' = IF last THEN acc ELSE api_result
    /\ UNCHANGED <<max_results, all_ad_ids, pagination_token, page_num,
                   seen_tokens, data, stop, fetchLog, firstSeen, maxPage, minNew>>
    /\ UNCHANGED <<fallback_to_html, returned, token_repeated>>
    /\ UNCHANGED exceptApi

ApiNext ==
    \/ ApiLoopExit
    \/ \E resp \in Responses : ApiFetchPage(resp)
    \/ FallbackExit
    \/ \E page \in FallbackPages : FallbackFetch(page)

ApiSpec == ApiStartInit /\ [][ApiNext]_vars

\* The interpreter always runs the next statement of the walker.
ApiFairSpec == ApiSpec /\ WF_vars(ApiNext)

\* ---------------------------------------------------- asset fetcher actions
\* A call of _download_ad_assets_with_dedup with any ad id, logo and bundle.
Materialize(ad, a, oc) ==
    /\ calls < MaxCalls
    /\ LET st == DownloadAdAssetsWithDedup(seen_assets, ad, a.logo, a.assets, oc)
       IN  /\ seen_assets' = st.seen
           /\ call' = [ad |-> ad, logo |-> a.logo, raw |-> a.assets,
                       assets |-> a.assets, downloaded |-> st.downloaded,
                       attempts |-> st.attempts,
                       repeat |-> calls >= 1 /\ ad = call.ad /\ a.logo = call.logo
                                  /\ a.assets = call.assets /\ AllSucceeded(call)]
    /\ calls' = calls + 1
    /\ UNCHANGED exceptAsset

\* One item of scrape_complete: scrape_ad_detail extracts the logo and the
\* deduplicated asset lists of the detail page, then the assets are
\* materialized.
ProcessItem(ad, a, oc) ==
    /\ calls < MaxCalls
    /\ LET assets == DeduplicateAssets(a.assets)
           st == DownloadAdAssetsWithDedup(seen_assets, ad, a.logo, assets, oc)
       IN  /\ seen_assets' = st.seen
           /\ call' = [ad |-> ad, logo |-> a.logo, raw |-> a.assets,
                       assets |-> assets, downloaded |-> st.downloaded,
                       attempts |-> st.attempts,
                       repeat |-> calls >= 1 /\ ad = call.ad /\ a.logo = call.logo
                                  /\ assets = call.assets /\ AllSucceeded(call)]
    /\ calls' = calls + 1
    /\ UNCHANGED exceptAsset

AssetNext ==
    \E ad \in Ads, a \in CallArgs, oc \in Outcomes : Materialize(ad, a, oc)

ItemNext ==
    \E ad \in Ads, a \in CallArgs, oc \in Outcomes : ProcessItem(ad, a, oc)

AssetSpec == IdleInit /\ [][AssetNext]_vars

ItemSpec == IdleInit /\ [][ItemNext]_vars

\* ----------------------------------------------------- single-asset variant
NoAsset == [type |-> "none", url |-> NoUrl]

GetSingleAsset_ImageFirst(assets) ==
    IF assets.images # <<>> THEN [type |-> "image", url |-> assets.images[1]]
    ELSE IF assets.videos # <<>> THEN [type |-> "video", url |-> assets.videos[1]]
    ELSE IF assets.posters # <<>> THEN [type |-> "poster", url |-> assets.posters[1]]
    ELSE NoAsset

\* _get_single_asset: the first video, else the first image, else the first
\* poster, else None.
GetSingleAsset(assets) ==
    IF assets.videos # <<>> THEN [type |-> "video", url |-> assets.videos[1]]
    ELSE IF assets.images # <<>> THEN [type |-> "image", url |-> assets.images[1]]
    ELSE IF assets.posters # <<>> THEN [type |-> "poster", url |-> assets.posters[1]]
    ELSE NoAsset

\* One download of the single-asset fetcher, logged as an attempt.
SingleAttempt(attempts, url, kind, ad, oc) ==
    Append(attempts,
           [kind |-> kind, url |-> url, path |-> GenPath(url, kind, ad, 0),
            ok |-> oc[Len(attempts) + 1], cached |-> FALSE])

DownloadAdAssets_AllAssets(ad, logo_url, assets, oc) ==
    LET a1 == IF logo_url # NoUrl
              THEN SingleAttempt(<<>>, logo_url, "logo", ad, oc) ELSE <<>>
        a2 == IF assets.videos # <<>>
              THEN SingleAttempt(a1, assets.videos[1], "video", ad, oc) ELSE a1
        a3 == IF assets.images # <<>> /\ Len(a2) < MaxBundle
              THEN SingleAttempt(a2, assets.images[1], "image", ad, oc) ELSE a2
    IN  [downloaded |-> [logo_path |-> NoPath, asset_path |-> NoPath,
                         asset_type |-> "none"],
         attempts |-> a3]

\* _download_ad_assets of the single-asset scraper: the logo when there is a
\* logo URL, then the one asset _get_single_asset picks.
DownloadAdAssets(ad, logo_url, assets, oc) ==
    LET a1 == IF logo_url # NoUrl
              THEN SingleAttempt(<<>>, logo_url, "logo", ad, oc) ELSE <<>>
        single_asset == GetSingleAsset(assets)
        a2 == IF single_asset # NoAsset
              THEN SingleAttempt(a1, single_asset.url, single_asset.type, ad, oc)
              ELSE a1
        logo_ok == logo_url # NoUrl /\ a1[1].ok
        asset_ok == single_asset # NoAsset /\ a2[Len(a2)].ok
    IN  [downloaded |->
            [logo_path |-> IF logo_ok THEN a1[1].path ELSE NoPath,
             asset_path |-> IF asset_ok THEN a2[Len(a2)].path ELSE NoPath,
             asset_type |-> IF asset_ok THEN single_asset.type ELSE "none"],
         attempts |-> a2]

\* Arguments of the single-asset fetcher: a logo or none, and a bundle.
SingleArgs == [logo : Urls \cup {NoUrl}, assets : AssetBundles]

\* A call of _download_ad_assets of the single-asset scraper.
SingleDownload(ad, a, oc) ==
    /\ calls < MaxCalls
    /\ LET st == DownloadAdAssets(ad, a.logo, a.assets, oc)
       IN  call' = [ad |-> ad, logo |-> a.logo, raw |-> a.assets,
                    assets |-> a.assets, downloaded |-> st.downloaded,
                    attempts |-> st.attempts, repeat |-> FALSE]
    /\ calls' = calls + 1
    /\ UNCHANGED seen_assets
    /\ UNCHANGED exceptAsset

SingleNext ==
    \E ad \in Ads, a \in SingleArgs, oc \in Outcomes : SingleDownload(ad, a, oc)

SingleSpec == IdleInit /\ [][SingleNext]_vars

\* ------------------------------- asset fetcher of the BeautifulSoup scraper
\* One download of _download_ad_assets, logged as an attempt.
BsAttempt(st, url, kind, ad, index, oc) ==
    LET path == GenPath(url, kind, ad, index)
        ok == oc[Len(st.attempts) + 1]
    IN  [downloaded |-> IF ok THEN Store(st.downloaded, kind, path)
                        ELSE st.downloaded,
         attempts |-> Append(st.attempts,
                             [kind |-> kind, url |-> url, path |-> path,
                              ok |-> ok, cached |-> FALSE])]

\* for i, url in enumerate(assets[kind], 1): download, append on success
RECURSIVE BsFetchList(_, _, _, _, _, _)
BsFetchList(st, urls, i, kind, ad, oc) ==
    IF i > Len(urls) THEN st
    ELSE BsFetchList(BsAttempt(st, urls[i], kind, ad, i, oc), urls, i + 1,
                     kind, ad, oc)

\* _download_ad_assets of the BeautifulSoup scraper: the logo, every image,
\* every video and every poster is downloaded; self.seen_assets is neither
\* read nor written.
BsDownloadAdAssets(ad, logo_url, assets, oc) ==
    LET s0 == [downloaded |-> EmptyDownloaded, attempts |-> <<>>]
        s1 == IF logo_url # NoUrl THEN BsAttempt(s0, logo_url, "logo", ad, 0, oc)
              ELSE s0
        s2 == BsFetchList(s1, assets.images, 1, "image", ad, oc)
        s3 == BsFetchList(s2, assets.videos, 1, "video", ad, oc)
    IN  BsFetchList(s3, assets.posters, 1, "poster", ad, oc)

\* One item of scrape_complete of the BeautifulSoup scraper: the assets of
\* the calls-th ad of the run are materialized.  The ids of a run are
\* distinct, so the item's ad id is its position in the run.
BsItem(a, oc) ==
    /\ calls < MaxCalls
    /\ LET ad == calls + 1
           st == BsDownloadAdAssets(ad, a.logo, a.assets, oc)
       IN  /\ call' = [ad |-> ad, logo |-> a.logo, raw |-> a.assets,
                       assets |-> a.assets, downloaded |-> st.downloaded,
                       attempts |-> st.attempts, repeat |-> FALSE]
           /\ download_log' = download_log \o st.attempts
    /\ calls' = calls + 1
    /\ UNCHANGED <<seen_assets, aborted>>
    /\ UNCHANGED exceptAssetAndLog

BsNext == \E a \in CallArgs, oc \in Outcomes : BsItem(a, oc)

BsSpec == IdleInit /\ [][BsNext]_vars

\* ------------------- malformed asset URLs in the complete scraper (file 9)
\* A URL that starts with http and that urlparse rejects with ValueError
\* (an unbalanced bracket in the host part).
BadUrl == [res |-> 1, q |-> 0, sig |-> 0 - 1]
Malformed(url) == url = BadUrl

\* _normalize_url and _get_video_base_path with their except branch: the raw
\* URL comes back when urlparse raises.
IdentityOrRaw(url, kind) == IF Malformed(url) THEN url ELSE Identity(url, kind)

\* _generate_filename calls urlparse outside any try: ValueError for a
\* malformed URL.
GenerateFilenameRaises(url) == Malformed(url)

\* Bundles with at most one malformed URL: the logo, an image or a poster.
\* Such a URL is never cached, so its slot always reaches _generate_filename.
BadCount(a) ==
    (IF Malformed(a.logo) THEN 1 ELSE 0)
    + Cardinality({i \in 1..Len(a.assets.images) : Malformed(a.assets.images[i])})
    + Cardinality({i \in 1..Len(a.assets.posters) : Malformed(a.assets.posters[i])})

ItemsWithBadUrl ==
    {a \in [logo : Urls \cup {NoUrl, BadUrl},
            assets : [images : SeqsUpTo(Urls \cup {BadUrl}, MaxBundle),
                      videos : SeqsUpTo(Urls, MaxBundle),
                      posters : SeqsUpTo(Urls \cup {BadUrl}, MaxBundle)]] :
        /\ (IF a.logo = NoUrl THEN 0 ELSE 1) + Len(a.assets.images)
               + Len(a.assets.videos) + Len(a.assets.posters) <= MaxBundle
        /\ BadCount(a) <= 1}

\* Longest prefix of a list of URLs whose filenames can be generated.
RECURSIVE UntilRaise(_)
UntilRaise(urls) ==
    IF urls = <<>> \/ GenerateFilenameRaises(Head(urls)) THEN <<>>
    ELSE <<Head(urls)>> \o UntilRaise(Tail(urls))

\* The slots _download_ad_assets_with_dedup gets through before
\* _generate_filename raises (all of them when it does not), in the order
\* logo, images, videos, posters.
ReachedSlots(a) ==
    LET imgs == UntilRaise(a.assets.images)
        psts == UntilRaise(a.assets.posters)
        none == [images |-> <<>>, videos |-> <<>>, posters |-> <<>>]
    IN  IF a.logo # NoUrl /\ GenerateFilenameRaises(a.logo)
            THEN [logo |-> NoUrl, assets |-> none, raised |-> TRUE]
        ELSE IF imgs # a.assets.images
            THEN [logo |-> a.logo, assets |-> [none EXCEPT !.images = imgs],
                  raised |-> TRUE]
        ELSE [logo |-> a.logo,
              assets |-> [a.assets EXCEPT !.posters = psts],
              raised |-> psts # a.assets.posters]

\* One item of scrape_complete of the complete scraper.  The call of
\* _download_ad_assets_with_dedup is not inside a try: when it raises, the
\* exception leaves scrape_complete and the run is over.
BadUrlItem(a, oc) ==
    /\ calls < MaxCalls
    /\ ~aborted
    /\ LET ad == calls + 1
           r == ReachedSlots(a)
           st == DownloadAdAssetsWithDedup(seen_assets, ad, r.logo, r.assets, oc)
       IN  /\ seen_assets' = st.seen
           /\ call' = [ad |-> ad, logo |-> a.logo, raw |-> a.assets,
                       assets |-> a.assets, downloaded |-> st.downloaded,
                       attempts |-> st.attempts, repeat |-> FALSE]
           /\ aborted' = r.raised
    /\ calls' = calls + 1
    /\ UNCHANGED download_log
    /\ UNCHANGED exceptAssetAndLog

BadUrlNext == \E a \in ItemsWithBadUrl, oc \in Outcomes : BadUrlItem(a, oc)

BadUrlSpec == IdleInit /\ [][BadUrlNext]_vars

\* -------------------------------------------------------- scrape_complete
\* What scrape_search_pages hands back: a duplicate-free list of ad ids, in
\* the order the listing served them (here ascending or descending).
WalkResults ==
    UNION {{[k \in 1..n |-> k], [k \in 1..n |-> n + 1 - k]} : n \in 0..MaxRun}

\* Outcome of the detail request: 200, another status, or an exception.
DetailOutcomes == {"ok", "status", "exception"}

\* Outcome of open(output_json, 'w') followed by json.dump.
WriteOutcomes == {"ok", "open_failed", "dump_failed"}

CookiesUsable_Always(cookies, fetched) == TRUE

\* if not cookies: if not self.fetch_cookies(...): return []
CookiesUsable(cookies, fetched) == cookies \/ fetched

ScrapeAdDetail_NoErrorField(ad_id, outcome) == [ad_id |-> ad_id, error |-> FALSE]

\* scrape_ad_detail_with_bs4: the record of one ad; a non-200 status or an
\* exception sets its error key and the record is returned all the same.
ScrapeAdDetail(ad_id, outcome) == [ad_id |-> ad_id, error |-> outcome # "ok"]

ShouldSave_OffByOne(i) == i % SavePeriod = 1

\* if i % 10 == 0
ShouldSave(i) == i % SavePeriod = 0

FinalSave_OnlyIfUnsaved(log) == log = <<>>

\* Step 3 writes the file whatever the loop already saved.
FinalSave(log) == TRUE

\* The file after a write attempt: rewritten, untouched when it cannot be
\* opened, truncated and incomplete when the dump fails midway.
WriteFile(file, content, w) ==
    IF w = "ok" THEN [state |-> "complete", content |-> content]
    ELSE IF w = "open_failed" THEN file
    ELSE [state |-> "partial", content |-> <<>>]

WriteEntry(content, w, at) == [content |-> content, outcome |-> w, at |-> at]

\* Entry of scrape_complete.
RunInit ==
    /\ rpc = "start"
    /\ cookies_state = "unset"
    /\ download_assets \in BOOLEAN
    /\ run_ids = <<>>
    /\ all_details = <<>>
    /\ last_detail = "none"
    /\ output_json = [state |-> "absent", content |-> <<>>]
    /\ writes = <<>>
    /\ net = {}
    /\ result = "unset"
    /\ run_exit = ""

RunStartInit == WalkIdle /\ AssetInit /\ RunInit /\ RetryIdle /\ FnIdle /\ LogIdle
    /\ ApiIdle /\ MrIdle

\* The cookie prerequisite: load_cookies, else fetch_cookies, else return [].
RunCookies(cookies, fetched) ==
    /\ rpc = "start"
    /\ cookies_state' = IF cookies THEN "loaded"
                        ELSE IF fetched THEN "fetched" ELSE "failed"
    /\ IF CookiesUsable(cookies, fetched)
       THEN /\ rpc' = "walk"
            /\ UNCHANGED <<result, run_exit>>
       ELSE /\ rpc' = "done"
            /\ result' = <<>>
            /\ run_exit' = "no_cookies"
    /\ UNCHANGED <<download_assets, run_ids, all_details, last_detail,
                   output_json, writes, net>>
    /\ UNCHANGED exceptRun

\* Step 1: the walker runs (listing fetches) and returns; no ids, return [].
RunWalk(ids, listing) ==
    /\ rpc = "walk"
    /\ ids # <<>> => listing
    /\ run_ids' = ids
    /\ net' = IF listing THEN net \cup {"listing"} ELSE net
    /\ IF ids = <<>>
       THEN /\ rpc' = "done"
            /\ result' = <<>>
            /\ run_exit' = "no_ids"
       ELSE /\ rpc' = "items"
            /\ UNCHANGED <<result, run_exit>>
    /\ UNCHANGED <<cookies_state, download_assets, all_details, last_detail,
                   output_json, writes>>
    /\ UNCHANGED exceptRun

\* Step 2, one pass of the loop: detail fetch, asset downloads, append, and
\* the progress save on every 10th item.
RunItem(outcome, has_assets, w) ==
    /\ rpc = "items"
    /\ outcome = "status" => ~has_assets
    /\ LET i == Len(all_details) + 1
           detail == ScrapeAdDetail(run_ids[i], outcome)
           details == Append(all_details, detail)
       IN  /\ all_details' = details
           /\ last_detail' = outcome
           /\ net' = net \cup {"detail"}
                     \cup (IF download_assets /\ has_assets THEN {"download"}
                           ELSE {})
           /\ IF ShouldSave(i)
              THEN /\ output_json' = WriteFile(output_json, details, w)
                   /\ writes' = Append(writes, WriteEntry(details, w, i))
              ELSE /\ w = "ok"
                   /\ UNCHANGED <<output_json, writes>>
           /\ rpc' = IF i < Len(run_ids) THEN "items" ELSE "final"
    /\ UNCHANGED <<cookies_state, download_assets, run_ids, result, run_exit>>
    /\ UNCHANGED exceptRun

\* Step 3: the final save, then return all_details.
RunFinal(w) ==
    /\ rpc = "final"
    /\ IF FinalSave(writes)
       THEN /\ output_json' = WriteFile(output_json, all_details, w)
            /\ writes' = Append(writes, WriteEntry(all_details, w, 0))
       ELSE /\ w = "ok"
            /\ UNCHANGED <<output_json, writes>>
    /\ rpc' = "done"
    /\ result' = all_details
    /\ run_exit' = "complete"
    /\ UNCHANGED <<cookies_state, download_assets, run_ids, all_details,
                   last_detail, net>>
    /\ UNCHANGED exceptRun

RunNext ==
    \/ \E cookies \in BOOLEAN, fetched \in BOOLEAN : RunCookies(cookies, fetched)
    \/ \E ids \in WalkResults, listing \in BOOLEAN : RunWalk(ids, listing)
    \/ \E outcome \in DetailOutcomes, has_assets \in BOOLEAN, w \in WriteOutcomes :
            RunItem(outcome, has_assets, w)
    \/ \E w \in WriteOutcomes : RunFinal(w)

RunSpec == RunStartInit /\ [][RunNext]_vars

\* -------------------------------------------------- fetch_pagination_page
\* What one request can come back with: 200 with a JSON body, 200 with a body
\* that is not JSON, 429, 401, 403, another status, or a transport exception.
Statuses == {"200", "200_badjson", "429", "401", "403", "other", "exception"}

RetryAllowed_OneMore(count) == count <= MaxRetries

\* if retry_count < 3
RetryAllowed(count) == count < MaxRetries

WaitTime_Linear(count) == (count + 1) * BaseWait

\* wait_time = (2 ** retry_count) * 5
WaitTime(count) == (2 ^ count) * BaseWait

\* Entry of fetch_pagination_page as the walker calls it (retry_count = 0).
RetryInit ==
    /\ fpc = "request"
    /\ f_token \in TokenValues
    /\ retry_count = 0
    /\ requests = 0
    /\ waits = <<>>
    /\ f_status = "none"
    /\ f_result = "unset"

RetryStartInit == WalkIdle /\ AssetInit /\ RunIdle /\ RetryInit /\ FnIdle /\ LogIdle
    /\ ApiIdle /\ MrIdle

\* One attempt: the request and what is done with its status.  On 429 with
\* retries left the call sleeps and recurses with retry_count + 1.
Request(status) ==
    /\ fpc = "request"
    /\ requests' = requests + 1
    /\ f_status' = status
    /\ IF status = "200"
       THEN /\ fpc' = "done"
            /\ f_result' = "data"
            /\ UNCHANGED <<retry_count, waits>>
       ELSE IF status = "429" /\ RetryAllowed(retry_count)
       THEN /\ waits' = Append(waits, WaitTime(retry_count))
            /\ retry_count' = retry_count + 1
            /\ UNCHANGED <<fpc, f_result>>
       ELSE /\ fpc' = "done"
            /\ f_result' = "none"
            /\ UNCHANGED <<retry_count, waits>>
    /\ UNCHANGED f_token
    /\ UNCHANGED exceptRetry

RetryNext == \E status \in Statuses : Request(status)

RetrySpec == RetryStartInit /\ [][RetryNext]_vars

\* --------------------------- _make_request of the proxy scraper (file 13)
\* What one HTTP request can come to: a response with a status, a proxy
\* error, or another request exception.
RequestOutcomes == {"200", "429", "503", "404", "proxy_error", "request_exception"}
Methods == {"GET", "POST", "PUT"}

\* Mutant: the loop makes one attempt more.
InRange_OneMore(a) == a <= max_retries

\* for attempt in range(max_retries)
InRange(a) == a < max_retries

\* if attempt < max_retries - 1
MayRetry(a) == a < max_retries - 1

\* wait_time = (attempt + 1) * 2
BusyWait(a) == (a + 1) * 2

\* _get_proxy: none without proxies, else the next one in rotation; the
\* rotation index moves on.
GetProxy(n, index) ==
    IF n = 0 THEN [proxy |-> 0, index |-> index]
    ELSE [proxy |-> (index % n) + 1, index |-> index + 1]

\* Entry of a call on a scraper with any number of proxies, anywhere in the
\* rotation.
MrInit ==
    /\ mpc = "entry"
    /\ method \in Methods
    /\ proxies \in 0..NumProxies
    /\ current_proxy_index \in 0..NumProxies
    /\ proxy = 0
    /\ attempt = 0
    /\ sent = <<>>
    /\ slept = <<>>
    /\ m_result = [kind |-> "unset"]

MrStartInit == WalkIdle /\ AssetInit /\ RunIdle /\ RetryIdle /\ FnIdle /\ LogIdle
    /\ ApiIdle /\ MrInit

\* proxy = self._get_proxy() before the loop.
MrEntry ==
    /\ mpc = "entry"
    /\ LET g == GetProxy(proxies, current_proxy_index)
       IN  proxy' = g.proxy /\ current_proxy_index' = g.index
    /\ mpc' = "request"
    /\ UNCHANGED <<method, proxies, attempt, sent, slept, m_result>>
    /\ UNCHANGED exceptMr

\* A method other than GET and POST: None is returned, nothing is sent.
MrBadMethod ==
    /\ mpc = "request"
    /\ InRange(attempt)
    /\ method \notin {"GET", "POST"}
    /\ m_result' = [kind |-> "none"]
    /\ mpc' = "done"
    /\ UNCHANGED <<method, proxies, current_proxy_index, proxy, attempt, sent,
                   slept>>
    /\ UNCHANGED exceptMr

\* One pass through the loop body: the request is sent through the proxy in
\* use and its outcome handled.  A pass that leaves the loop by continue on
\* the last attempt runs into the final return None.
MrAttempt(outcome) ==
    /\ mpc = "request"
    /\ InRange(attempt)
    /\ method \in {"GET", "POST"}
    /\ sent' = Append(sent, [proxy |-> proxy, outcome |-> outcome])
    /\ LET retry == \/ outcome \in {"429", "503"}
                    \/ outcome \in {"proxy_error", "request_exception"}
                       /\ MayRetry(attempt)
           g == GetProxy(proxies, current_proxy_index)
           switch == outcome = "proxy_error" /\ MayRetry(attempt)
       IN  /\ slept' = IF outcome \in {"429", "503"}
                           THEN Append(slept, BusyWait(attempt))
                       ELSE IF outcome = "request_exception" /\ MayRetry(attempt)
                           THEN Append(slept, 1)
                       ELSE slept
           /\ proxy' = IF switch THEN g.proxy ELSE proxy
           /\ current_proxy_index' = IF switch THEN g.index ELSE current_proxy_index
           /\ attempt' = IF retry THEN attempt + 1 ELSE attempt
           /\ mpc' = IF retry /\ InRange(attempt + 1) THEN "request" ELSE "done"
           /\ m_result' = IF outcome = "200" THEN [kind |-> "response", status |-> 200]
                          ELSE IF retry /\ InRange(attempt + 1) THEN m_result
                          ELSE [kind |-> "none"]
    /\ UNCHANGED <<method, proxies>>
    /\ UNCHANGED exceptMr

MrNext ==
    \/ MrEntry
    \/ MrBadMethod
    \/ \E outcome \in RequestOutcomes : MrAttempt(outcome)

MrSpec == MrStartInit /\ [][MrNext]_vars

\* ------------------------------------------------------------ URL helpers
\* A URL as urlparse splits it: host, path segments, query string, fragment
\* (0: none).  A path segment is a plain name, an encoding-profile segment
\* "mp4-<q>p-<fp>fp-crf28", a short one "mp4-<q>p", or a name with a
\* resolution inside, "<n>-<q>p-<x>".  A query string may hold digits
\* followed by "p" (p > 0).
PlainSeg == [t |-> "plain", q |-> 0, fp |-> 0]
Segments ==
    {PlainSeg}
    \cup [t : {"profile"}, q : {360, 720}, fp : {30, 60}]
    \cup {[t |-> "short", q |-> 720, fp |-> 0], [t |-> "dashed", q |-> 720, fp |-> 0]}

\* A segment that names a rendition of the video.
IsRendition(seg) == seg.t \in {"profile", "short"}

\* The media host puts at most one rendition segment in a path.
OneRendition(path) ==
    Cardinality({i \in 1..Len(path) : IsRendition(path[i])}) <= 1

Paths ==
    {path \in UNION {[1..n -> Segments] : n \in 1..MaxPathLen} : OneRendition(path)}
Queries == {[id |-> 1, p |-> 0], [id |-> 2, p |-> 0], [id |-> 3, p |-> 1080]}
Fragments == {0, 1}
TextUrls == [host : {1}, path : Paths, query : Queries, fragment : {0}]

normalize_url_KeepQuery(url) ==
    [host |-> url.host, path |-> url.path, query |-> url.query]

\* _normalize_url: f"{parsed.scheme}://{parsed.netloc}{parsed.path}"
normalize_url(url) == [host |-> url.host, path |-> url.path]

\* re.sub(r'/<segment of one of the types>/', '/', path): a matching segment
\* is dropped when a "/" follows it; the match consumes that "/", so the
\* segment right after a dropped one is not examined.
RECURSIVE SubSegment(_, _)
SubSegment(path, types) ==
    IF Len(path) <= 1 THEN path
    ELSE IF Head(path).t \in types
         THEN <<path[2]>> \o SubSegment(SubSeq(path, 3, Len(path)), types)
         ELSE <<Head(path)>> \o SubSegment(Tail(path), types)

\* re.sub(r'-\d+p-', '-', path): the resolution inside a segment goes when a
\* "-" follows it.
SubDashed(path) ==
    [i \in 1..Len(path) |->
        IF path[i].t \in {"profile", "dashed"} THEN [path[i] EXCEPT !.q = 0]
        ELSE path[i]]

get_video_base_path_NoProfile(url) ==
    [host |-> url.host,
     path |-> SubDashed(SubSegment(url.path, {"short"}))]

\* _get_video_base_path
get_video_base_path(url) ==
    [host |-> url.host,
     path |-> SubDashed(SubSegment(SubSegment(url.path, {"profile"}), {"short"}))]

\* [int(m) for m in re.findall(r'(\d+)p', x)]
findall_p(url) ==
    {url.path[i].q : i \in 1..Len(url.path)} \cup {url.query.p}

\* max([...] + [0])
quality(url) == CHOOSE m \in findall_p(url) \cup {0} :
                    \A n \in findall_p(url) \cup {0} : n <= m

RECURSIVE max_by_quality_LastOnTie(_, _)
max_by_quality_LastOnTie(urls, best) ==
    IF urls = <<>> THEN best
    ELSE max_by_quality_LastOnTie(Tail(urls),
            IF quality(Head(urls)) >= quality(best) THEN Head(urls) ELSE best)

\* max(urls, key=...): a later URL replaces the best one only when its key is
\* strictly larger.
RECURSIVE max_by_quality(_, _)
max_by_quality(urls, best) ==
    IF urls = <<>> THEN best
    ELSE max_by_quality(Tail(urls),
            IF quality(Head(urls)) > quality(best) THEN Head(urls) ELSE best)

\* best_url = max(urls, key=lambda x: max([...] + [0]))
best_url(urls) == max_by_quality(Tail(urls), Head(urls))

\* The key a URL of a kind is cached under once its download succeeded.
cache_key(url, asset_type) ==
    IF asset_type = "video" THEN get_video_base_path(url) ELSE normalize_url(url)

\* _is_duplicate_asset over seen_assets[asset_type + "s"] = seen
is_duplicate_asset(url, asset_type, seen) ==
    IF asset_type = "video"
    THEN get_video_base_path(url) \in DOMAIN seen
    ELSE normalize_url(url) \in DOMAIN seen

\* A second URL made from a first one: one path segment, the query string
\* and the fragment replaced.
Variations ==
    [at : 1..MaxPathLen, seg : Segments, query : Queries, fragment : Fragments]

Vary(url, v) ==
    [host |-> url.host,
     path |-> [i \in 1..Len(url.path) |-> IF i = v.at THEN v.seg ELSE url.path[i]],
     query |-> v.query, fragment |-> v.fragment]

\* The URLs of one group of renditions.
GroupMembers ==
    {[host |-> 1, path |-> <<PlainSeg, s, PlainSeg>>, query |-> q, fragment |-> 0] :
        s \in Segments, q \in Queries}

PairInputs ==
    {in \in {[op |-> "pair", first |-> u, second |-> Vary(u, v), urls |-> <<>>] :
                u \in TextUrls, v \in Variations} :
        OneRendition(in.second.path)}

FnInputs ==
    PairInputs
    \cup {[op |-> "group", first |-> g[1], second |-> g[1], urls |-> g] :
            g \in UNION {[1..n -> GroupMembers] : n \in 1..MaxGroup}}

FnInit ==
    /\ fn_in \in FnInputs
    /\ fn_out = [op |-> "unset"]

FnStartInit == WalkIdle /\ AssetInit /\ RunIdle /\ RetryIdle /\ FnInit /\ LogIdle
    /\ ApiIdle /\ MrIdle

\* Both identities of two URLs, and whether the second is a duplicate of the
\* first once the first is cached, for every kind.
ApplyIdentity ==
    /\ fn_out = [op |-> "unset"]
    /\ fn_in.op = "pair"
    /\ fn_out' =
          [op |-> "pair",
           n1 |-> normalize_url(fn_in.first),
           n2 |-> normalize_url(fn_in.second),
           b1 |-> get_video_base_path(fn_in.first),
           b2 |-> get_video_base_path(fn_in.second),
           dup |-> [k \in {"logo", "image", "video", "poster"} |->
                      is_duplicate_asset(fn_in.second, k,
                          Put(<<>>, cache_key(fn_in.first, k), "path"))]]
    /\ UNCHANGED fn_in
    /\ UNCHANGED exceptFn

\* The identities of the video URLs of a detail page and the selection among
\* them.
ApplyBest ==
    /\ fn_out = [op |-> "unset"]
    /\ fn_in.op = "group"
    /\ fn_out' = [op |-> "group",
                  bases |-> [i \in 1..Len(fn_in.urls) |->
                                get_video_base_path(fn_in.urls[i])],
                  best |-> best_url(fn_in.urls)]
    /\ UNCHANGED fn_in
    /\ UNCHANGED exceptFn

FnNext == ApplyIdentity \/ ApplyBest

FnSpec == FnStartInit /\ [][FnNext]_vars

\* ------------------ scrape_ad_detail_with_bs4 of the proxy scraper (file 13)
\* What re.search finds for the ad type in the page text: nothing, or the
\* text of the first matching marker.
TypeMarkers == {"none", "Video Ad", "Image Ad", "Carousel Ad", "Sponsored Content"}

\* A detail page: its type marker and the assets _extract_assets_with_bs4
\* finds on it.
DetailPages == [marker : TypeMarkers, assets : AssetBundles]

\* The ad_detail dict as first built: no type, empty asset lists.
NewAdDetail ==
    [ad_type |-> "none",
     assets |-> [images |-> <<>>, videos |-> <<>>, posters |-> <<>>]]

\* for pattern in ad_type_patterns: match -> ad_detail["ad_type"] = group(1)
MatchMarker(ad_detail, page) ==
    IF page.marker # "none" THEN [ad_detail EXCEPT !.ad_type = page.marker]
    ELSE ad_detail

\* if not ad_detail["ad_type"]: the type is taken from ad_detail["assets"] as
\* it stands at this point.
InferAdType(ad_detail) ==
    LET assets == ad_detail.assets
    IN  IF ad_detail.ad_type # "none" THEN ad_detail
        ELSE IF assets.videos # <<>> THEN [ad_detail EXCEPT !.ad_type = "Video Ad"]
        ELSE IF Len(assets.images) > 1
            THEN [ad_detail EXCEPT !.ad_type = "Carousel Ad"]
        ELSE IF assets.images # <<>> THEN [ad_detail EXCEPT !.ad_type = "Image Ad"]
        ELSE ad_detail

\* assets = self._extract_assets_with_bs4(soup); ad_detail["assets"] = assets
StoreAssets(ad_detail, page) == [ad_detail EXCEPT !.assets = page.assets]

\* The part of scrape_ad_detail_with_bs4 that sets ad_type and assets, in
\* the order of the statements: marker search, inference, and only then the
\* extraction of the page's assets.
DetailOf(page) == StoreAssets(InferAdType(MatchMarker(NewAdDetail, page)), page)

DetailInit ==
    /\ fn_in \in [op : {"detail"}, page : DetailPages]
    /\ fn_out = [op |-> "unset"]

DetailStartInit == WalkIdle /\ AssetInit /\ RunIdle /\ RetryIdle /\ DetailInit
    /\ LogIdle /\ ApiIdle /\ MrIdle

\* A call of scrape_ad_detail_with_bs4 on a page that was fetched.
ScrapeAdDetailWithBs4 ==
    /\ fn_in.op = "detail"
    /\ fn_out.op = "unset"
    /\ fn_out' = [op |-> "detail", detail |-> DetailOf(fn_in.page)]
    /\ UNCHANGED fn_in
    /\ UNCHANGED exceptFn

DetailNext == ScrapeAdDetailWithBs4

DetailSpec == DetailStartInit /\ [][DetailNext]_vars

\* ------------------- _normalize_pagination_token and the fetch it selects
\* A token is None or a string over a small alphabet: digits, the separator,
\* a letter and a sign.
TokChars == {"0", "1", "#", "a", "-"}
TokDigits == {"0", "1"}
NoneText == <<"None">>
TokenTexts == SeqsUpTo(TokChars, MaxTokLen) \cup {NoneText}

\* not token: None or the empty string
Absent(token) == token = NoneText \/ token = <<>>

\* Mutant: the part before the last '#' (rsplit).
RECURSIVE BeforeHash_Last(_)
BeforeHash_Last(token) ==
    IF token = <<>> THEN <<>>
    ELSE IF token[Len(token)] = "#" THEN SubSeq(token, 1, Len(token) - 1)
    ELSE BeforeHash_Last(SubSeq(token, 1, Len(token) - 1))

\* token.split('#')[0]: the part before the first '#'
RECURSIVE BeforeHash(_)
BeforeHash(token) ==
    IF token = <<>> \/ Head(token) = "#" THEN <<>>
    ELSE <<Head(token)>> \o BeforeHash(Tail(token))

\* Value of a string of digits, base 10.
RECURSIVE DigitsValue(_)
DigitsValue(ds) ==
    IF ds = <<>> THEN 0
    ELSE 10 * DigitsValue(SubSeq(ds, 1, Len(ds) - 1))
         + (IF ds[Len(ds)] = "1" THEN 1 ELSE 0)

\* int(text): an optional sign and at least one digit, else ValueError.
ParseInt(text) ==
    LET neg == text # <<>> /\ Head(text) = "-"
        ds == IF neg THEN Tail(text) ELSE text
        ok == ds # <<>> /\ \A i \in 1..Len(ds) : ds[i] \in TokDigits
    IN  [ok |-> ok,
         value |-> IF ~ok THEN 0 ELSE IF neg THEN 0 - DigitsValue(ds)
                   ELSE DigitsValue(ds)]

\* _normalize_pagination_token: (mode, value)
NormalizePaginationToken(token) ==
    IF Absent(token) THEN [mode |-> "api", value |-> [kind |-> "none"]]
    ELSE IF \E i \in 1..Len(token) : token[i] = "#"
        THEN LET offset == ParseInt(BeforeHash(token))
             IN  IF offset.ok
                 THEN [mode |-> "offset", value |-> [kind |-> "int", n |-> offset.value]]
                 ELSE [mode |-> "api", value |-> [kind |-> "text", text |-> token]]
    ELSE [mode |-> "api", value |-> [kind |-> "text", text |-> token]]

\* The fetch scrape_search_pages makes for (mode, value): fetch_api_page
\* sends paginationToken only for a truthy value, fetch_offset_page sends
\* start = str(offset).
FetchFor(nt) ==
    IF nt.mode = "api"
        THEN IF nt.value.kind = "text" /\ nt.value.text # <<>>
             THEN [endpoint |-> "api", param |-> "paginationToken",
                   sent |-> nt.value]
             ELSE [endpoint |-> "api", param |-> "none", sent |-> [kind |-> "none"]]
    ELSE IF nt.mode = "offset"
        THEN [endpoint |-> "search", param |-> "start", sent |-> nt.value]
    ELSE [endpoint |-> "api", param |-> "none", sent |-> [kind |-> "none"]]

TokenInit ==
    /\ fn_in \in [op : {"token"}, token : TokenTexts]
    /\ fn_out = [op |-> "unset"]

TokenStartInit == WalkIdle /\ AssetInit /\ RunIdle /\ RetryIdle /\ TokenInit
    /\ LogIdle /\ ApiIdle /\ MrIdle

\* The token is classified and the page fetched accordingly.
NormalizeAndFetch ==
    /\ fn_in.op = "token"
    /\ fn_out.op = "unset"
    /\ LET nt == NormalizePaginationToken(fn_in.token)
       IN  fn_out' = [op |-> "token", mode |-> nt.mode, value |-> nt.value,
                      fetch |-> FetchFor(nt)]
    /\ UNCHANGED fn_in
    /\ UNCHANGED exceptFn

TokenNext == NormalizeAndFetch

TokenSpec == TokenStartInit /\ [][TokenNext]_vars

\* ------------------------------------------------------- walker properties
Prefix(s, n) == SubSeq(s, 1, Min(n, Len(s)))
LastFetched == fetchLog[Len(fetchLog)]

\* C1: within one walk no token value is passed to a listing fetch more
\* than once.
C1_NoTokenFetchedTwice == IsDupFree(fetchLog)

\* The endpoint sent the walk back to a token used two fetches earlier.
C1_Witness ==
    /\ stop = "token_seen"
    /\ Len(fetchLog) >= 3
    /\ pagination_token \in Range(fetchLog)

\* C2 (as stated): the accumulated list equals the pages' ids in first-seen
\* order with later re-occurrences removed.
C2_Original == all_ad_ids = firstSeen

\* C2 (amended): the accumulated list has no id twice and equals the first
\* max_results entries of the pages' ids in first-seen order with later
\* re-occurrences removed.
C2_FirstSeenPrefix ==
    /\ IsDupFree(all_ad_ids)
    /\ all_ad_ids = Prefix(firstSeen, max_results)

\* Pages [A,B] then [B,C] were accumulated into [A,B,C].
C2_Witness ==
    /\ Len(fetchLog) = 2
    /\ Len(all_ad_ids) = 3
    /\ data.kind = "page"
    /\ data.matches = <<all_ad_ids[2], all_ad_ids[3]>>

\* C3 (as stated, with one fetch of slack): a finished walk over pages of
\* at most itemsPerPage ids made no more than
\* min(ceil(target / itemsPerPage), 100) + 1 listing fetches.
C3_Original ==
    (pc = "done" /\ maxPage >= 1)
        => Len(fetchLog) <= Min(CeilDiv(max_results, maxPage), MaxPages) + 1

\* C3 (amended): the walk terminates, and when every fetched page brought
\* at least itemsPerPage >= 1 ids not seen on an earlier page, it made no
\* more than min(ceil(target / itemsPerPage), 100) listing fetches.
C3_TerminatesWithinBound ==
    /\ <>(pc = "done")
    /\ []((pc = "done" /\ minNew \in 1..MaxPageLen)
            => Len(fetchLog) <= Min(CeilDiv(max_results, minNew), MaxPages))

\* A walk of two full pages of fresh ids that ended on the target.
C3_Witness ==
    /\ pc = "done"
    /\ minNew = 1
    /\ max_results = 3
    /\ Len(fetchLog) = 3
    /\ stop = "target_reached"

\* The response to the latest fetch named a token used for an earlier fetch.
OldTokenReturned ==
    /\ data.kind = "page"
    /\ Truthy(data.token)
    /\ \E i \in 1..(Len(fetchLog) - 1) : fetchLog[i] = data.token

\* C6: once the endpoint returns a token that an earlier fetch of the walk
\* used, the walk stops: no further fetch is made and the accumulated ids
\* are returned as they are.
C6_OldTokenStops ==
    [][OldTokenReturned
        => (pc' = "done" /\ fetchLog' = fetchLog /\ all_ad_ids' = all_ad_ids)]_vars

\* The loop guard ended a walk whose last page had still added ids.
C6_Witness ==
    /\ OldTokenReturned
    /\ stop = "token_seen"
    /\ data.token # LastFetched
    /\ Len(all_ad_ids) >= 2

\* C7: when the response to a fetch carries the very token the fetch was
\* made with (no token at all on the first page included), the walk is
\* over and returns the ids accumulated up to and including that page.
C7_SameTokenStops ==
    (data.kind = "page" /\ fetchLog # <<>> /\ data.token = LastFetched)
        => (pc = "done" /\ all_ad_ids = Prefix(firstSeen, max_results))

\* A second page answered with its own token after adding an id.
C7_Witness ==
    /\ stop = "same_token"
    /\ Truthy(data.token)
    /\ data.token = LastFetched
    /\ Len(fetchLog) = 2
    /\ Range(ExtractAdIds(data.matches)) \subseteq Range(all_ad_ids)
    /\ Len(all_ad_ids) >= 2

\* C8: the list never exceeds max_results; when the fetched pages supplied
\* at least max_results distinct ids the returned list has exactly
\* max_results ids; and no fetch is made once that count is reached.
C8_TargetRespected ==
    /\ [](Len(all_ad_ids) <= max_results)
    /\ []((pc = "done" /\ Len(firstSeen) >= max_results)
            => Len(all_ad_ids) = max_results)
    /\ [][Len(all_ad_ids) >= max_results => fetchLog' = fetchLog]_vars

\* Pages of 2 then 2 ids with target 3: 3 ids after exactly 2 fetches.
C8_Witness ==
    /\ pc = "done"
    /\ max_results = 3
    /\ Len(fetchLog) = 2
    /\ Len(firstSeen) = 4
    /\ all_ad_ids = SubSeq(firstSeen, 1, 3)
    /\ stop = "target_reached"

\* ------------------------------------------------- asset fetcher properties
AssetKinds == {"logo", "image", "video", "poster"}

\* URLs of one kind among the arguments of a call.
UrlsOf(c, kind) ==
    IF kind = "logo" THEN {c.logo} \ {NoUrl} ELSE Range(c.assets[AssetKey(kind)])

\* Local paths a call returned for one kind.
SlotPaths(c, kind) ==
    IF kind = "logo" THEN {c.downloaded.logo} \ {NoPath}
    ELSE Range(c.downloaded[AssetKey(kind)])

TwoRenditions(videos) ==
    /\ Len(videos) = 2
    /\ VideoBasePath(videos[1]) = VideoBasePath(videos[2])
    /\ {videos[1].q, videos[2].q} = {360, 720}

VideoAttempts(c) == SelectSeq(c.attempts, LAMBDA t : t.kind = "video")

\* C5: an item whose detail page exposes a 360p and a 720p rendition of one
\* video not materialized before, in either order, causes exactly one video
\* download, of the 720p URL.
C5_BestRenditionDownloaded ==
    [][(calls' = calls + 1 /\ TwoRenditions(call'.raw.videos)
            /\ VideoBasePath(call'.raw.videos[1]) \notin DOMAIN seen_assets.videos)
        => (Len(VideoAttempts(call')) = 1
            /\ VideoAttempts(call')[1].url.q = 720)]_vars

\* C9: no download is attempted for a URL whose identity is a key of
\* seen_assets for its kind at that moment, and every URL of a call whose
\* identity was cached when the call began gets the cached path.
C9_CacheConsulted ==
    /\ [](\A i \in 1..Len(call.attempts) : ~call.attempts[i].cached)
    /\ [][calls' = calls + 1
            => \A kind \in AssetKinds : \A url \in UrlsOf(call', kind) :
                Identity(url, kind) \in DOMAIN seen_assets[AssetKey(kind)]
                => seen_assets[AssetKey(kind)][Identity(url, kind)]
                       \in SlotPaths(call', kind)]_vars

\* The second call reused a cached poster and downloaded a video.
C9_Witness ==
    /\ calls = 2
    /\ Len(call.assets.posters) = 1
    /\ Len(call.downloaded.posters) = 1
    /\ Len(call.attempts) = 1
    /\ call.attempts[1].kind = "video"
    /\ call.attempts[1].ok

\* C10: a step changes seen_assets only by adding absent keys, each the
\* identity of a URL whose download just succeeded, mapped to the path that
\* download wrote; existing entries stay as they are.
C10_CacheOnlyGrowsOnSuccess ==
    [][\A part \in {"logos", "images", "videos", "posters"} :
        LET old == seen_assets[part]
            new == seen_assets'[part]
        IN  /\ \A k \in DOMAIN old : k \in DOMAIN new /\ new[k] = old[k]
            /\ \A k \in (DOMAIN new) \ (DOMAIN old) :
                \E i \in 1..Len(call'.attempts) :
                    LET t == call'.attempts[i]
                    IN  /\ t.ok
                        /\ AssetKey(t.kind) = part
                        /\ Identity(t.url, t.kind) = k
                        /\ t.path = new[k]]_vars

\* A call in which one download succeeded and another failed, on top of a
\* cache that already held an entry.
C10_Witness ==
    /\ calls = 2
    /\ Len(call.attempts) = 2
    /\ call.attempts[1].ok
    /\ ~call.attempts[2].ok
    /\ Cardinality(DOMAIN seen_assets.logos) + Cardinality(DOMAIN seen_assets.images)
         + Cardinality(DOMAIN seen_assets.videos)
         + Cardinality(DOMAIN seen_assets.posters) = 2

\* ----------------------------------------------- scrape_complete properties
LastWrite == writes[Len(writes)]

\* C11: right after the i-th record is appended with i a multiple of 10 the
\* file is written with exactly the i records collected so far; after the
\* last item it is written once more with all records; there is no other
\* write, and every successfully written content is a prefix of the
\* collection in memory.
C11_PeriodicAndFinalSave ==
    /\ [][(Len(all_details') = Len(all_details) + 1
                /\ Len(all_details') % SavePeriod = 0)
            => (/\ writes' = Append(writes, LastWrite')
                /\ LastWrite'.content = all_details'
                /\ Len(LastWrite'.content) = Len(all_details) + 1)]_vars
    /\ [](run_exit = "complete"
            => (writes # <<>> /\ LastWrite.content = all_details
                /\ LastWrite.at = 0))
    /\ [](Len(writes) = (Len(all_details) \div SavePeriod)
                            + (IF run_exit = "complete" THEN 1 ELSE 0))
    /\ [](\A k \in 1..Len(writes) :
            writes[k].outcome = "ok"
                => writes[k].content = Prefix(all_details, Len(writes[k].content)))
    /\ [](output_json.state = "complete"
            => output_json.content = Prefix(all_details, Len(output_json.content)))

C11_Witness ==
    /\ rpc = "done"
    /\ Len(all_details) = SavePeriod + 1
    /\ Len(writes) = 2
    /\ writes[1].outcome = "ok"
    /\ Len(writes[1].content) = SavePeriod
    /\ writes[2].outcome = "ok"
    /\ output_json.content = all_details

C14_NoCookiesNoNetwork ==
    cookies_state = "failed"
        => (rpc = "done" /\ result = <<>> /\ net = {} /\ all_details = <<>>
            /\ run_ids = <<>>)

C14_Witness ==
    /\ cookies_state = "failed"
    /\ rpc = "done"
    /\ run_exit = "no_cookies"

\* ----------------------------------------- fetch_pagination_page properties
\* C15: under repeated 429 responses the call retries at most 3 times, after
\* waits of 5, 10 and 20 seconds, then returns no data; it never issues more
\* than 4 requests, and a 200 response at any attempt ends the call.
C15_BoundedBackoff ==
    /\ [](requests <= 4 /\ Len(waits) <= 3 /\ requests <= Len(waits) + 1)
    /\ [](waits = Prefix(<<5, 10, 20>>, Len(waits)))
    /\ []((fpc = "done" /\ f_status = "429")
            => (requests = 4 /\ waits = <<5, 10, 20>> /\ f_result = "none"))
    /\ [][f_status' = "429" => Len(waits') = Len(waits) + 1 \/ requests' = 4]_vars
    /\ [](f_status \in {"200", "200_badjson"} => fpc = "done")

C15_Witness ==
    /\ fpc = "done"
    /\ requests = 4
    /\ waits = <<5, 10, 20>>
    /\ f_status = "429"
    /\ f_result = "none"

\* ------------------------------------------------ failed download properties
\* Output slots a call has for one kind: the logo, each image and poster URL,
\* each group of video renditions.
Slots(c, kind) ==
    IF kind = "logo" THEN (IF c.logo = NoUrl THEN 0 ELSE 1)
    ELSE IF kind = "video" THEN Len(VideoGroupKeys(c.assets.videos))
    ELSE Len(c.assets[AssetKey(kind)])

Filled(c, kind) ==
    IF kind = "logo" THEN (IF c.downloaded.logo = NoPath THEN 0 ELSE 1)
    ELSE Len(c.downloaded[AssetKey(kind)])

Failed(c, kind) ==
    Len(SelectSeq(c.attempts, LAMBDA t : t.kind = kind /\ ~t.ok))

\* C16: a failed download leaves only its own output slot empty: in every
\* call, for every kind, each slot is either filled (downloaded or reused)
\* or has a failed download attempt of its own, the call returns and the
\* item's record is registered.
C16_FailureLeavesOnlyItsSlotEmpty ==
    [][calls' = calls + 1
        => \A kind \in AssetKinds :
              Filled(call', kind) + Failed(call', kind) = Slots(call', kind)]_vars

C16_Witness ==
    /\ calls >= 1
    /\ Len(call.attempts) = 2
    /\ ~call.attempts[1].ok
    /\ call.attempts[2].ok
    /\ call.attempts[1].kind = "logo"
    /\ Filled(call, "logo") = 0
    /\ Filled(call, call.attempts[2].kind) = 1

\* ---------------------------------------------------- URL helper properties
\* Two URLs that differ in nothing but the query string or the fragment.
SameButQueryOrFragment(u1, u2) ==
    /\ u1.host = u2.host
    /\ u1.path = u2.path
    /\ u1.query # u2.query \/ u1.fragment # u2.fragment

\* C17: URLs that differ only in query string or fragment have the same
\* normalized identity, and the second is reported as a duplicate logo, image
\* and poster once the first is cached.
C17_QueryAndFragmentIgnored ==
    (fn_out.op = "pair"
        /\ SameButQueryOrFragment(fn_in.first, fn_in.second))
    => (/\ fn_out.n1 = fn_out.n2
        /\ \A k \in {"logo", "image", "poster"} : fn_out.dup[k])

C17_Witness ==
    /\ fn_out.op = "pair"
    /\ fn_in.first.path = fn_in.second.path
    /\ fn_in.first.query # fn_in.second.query
    /\ fn_in.first.fragment # fn_in.second.fragment
    /\ Len(fn_in.first.path) = 2
    /\ fn_out.dup["logo"] /\ fn_out.dup["image"] /\ fn_out.dup["poster"]

\* Two video URLs of one resource that differ only in one embedded
\* resolution/encoding-profile segment (a segment followed by further path)
\* and possibly in the query string.
SameButRendition(u1, u2) ==
    /\ u1.host = u2.host
    /\ Len(u1.path) = Len(u2.path)
    /\ \E i \in 1..(Len(u1.path) - 1) :
          /\ IsRendition(u1.path[i]) /\ IsRendition(u2.path[i])
          /\ u1.path[i] # u2.path[i]
          /\ \A j \in 1..Len(u1.path) : j # i => u1.path[j] = u2.path[j]

FirstMax(urls) ==
    CHOOSE i \in 1..Len(urls) :
        \A j \in 1..Len(urls) :
            /\ quality(urls[j]) <= quality(urls[i])
            /\ j < i => quality(urls[j]) < quality(urls[i])

ExpectedSingle(c) ==
    (IF c.logo # NoUrl THEN <<[kind |-> "logo", url |-> c.logo]>> ELSE <<>>)
    \o (IF c.assets.videos # <<>>
            THEN <<[kind |-> "video", url |-> c.assets.videos[1]]>>
        ELSE IF c.assets.images # <<>>
            THEN <<[kind |-> "image", url |-> c.assets.images[1]]>>
        ELSE IF c.assets.posters # <<>>
            THEN <<[kind |-> "poster", url |-> c.assets.posters[1]]>>
        ELSE <<>>)

\* C19: a call of the single-asset _download_ad_assets attempts at most two
\* downloads, the logo when a logo URL exists and the one asset chosen by the
\* priority video, image, poster, and nothing else.
C19_LogoAndOneAsset ==
    [][calls' = calls + 1
        => (/\ Len(call'.attempts) <= 2
            /\ Len(call'.attempts) = Len(ExpectedSingle(call'))
            /\ \A i \in 1..Len(call'.attempts) :
                  /\ call'.attempts[i].kind = ExpectedSingle(call')[i].kind
                  /\ call'.attempts[i].url = ExpectedSingle(call')[i].url)]_vars

C19_Witness ==
    /\ calls >= 1
    /\ call.logo # NoUrl
    /\ Len(call.assets.videos) = 1
    /\ Len(call.assets.images) = 1
    /\ Len(call.attempts) = 2
    /\ call.attempts[2].kind = "video"
    /\ call.downloaded.asset_type = "video"

\* ---------------------------------------------------- page ceiling property
\* C20: whatever the endpoint returns, one walk makes at most 100 listing
\* fetches, and it is over once the page counter exceeds 100.
C20_AtMostHundredFetches ==
    /\ Len(fetchLog) <= 100
    /\ page_num > 100 => (pc = "done" /\ stop = "safety_limit")
    /\ pc = "loop" => Len(fetchLog) = page_num - 1

C20_Witness ==
    /\ pc = "done"
    /\ stop = "safety_limit"
    /\ Len(fetchLog) = 100
    /\ page_num = 101
    /\ IsDupFree(fetchLog)


\* ---------------------------------------------------------------------------
\* C21: across one run of scrape_complete of the BeautifulSoup scraper, two
\* asset URLs with the same identity (kind, and normalized URL or video base
\* path) cause at most one download: no identity is downloaded successfully
\* for two different ads of the run.
C21_OneDownloadPerIdentity ==
    \A i, j \in 1..Len(download_log) :
        (/\ i < j
         /\ download_log[i].path.ad # download_log[j].path.ad
         /\ download_log[i].ok
         /\ download_log[j].ok
         /\ download_log[i].kind = download_log[j].kind)
        => Identity(download_log[i].url, download_log[i].kind)
               # Identity(download_log[j].url, download_log[j].kind)


\* ---------------------------------------------------------------------------
\* C22: the walker of the API scraper (and of the cookie scraper, whose loop
\* is the same) terminates whenever the listing endpoint hands back a
\* continuation token it had handed back earlier in the walk, whatever the
\* pages contain.
C22_RepeatedTokenTerminates == token_repeated ~> (pc = "done")

\* ---------------------------------------------------------------------------
\* Concatenation of the ads of the logged fallback pages.
RECURSIVE ConcatAds(_)
ConcatAds(log) ==
    IF log = <<>> THEN <<>> ELSE log[1].ads \o ConcatAds(Tail(log))

\* C30: when a fetch of the API walker fails with the HTML fallback enabled,
\* the returned list is exactly what scrape_search_pages_html_fallback
\* collects from offset 0 on (its pages in order, cut at max_results): no
\* ad accumulated from the API pages is carried into it.
C30_FallbackResultOnly ==
    (pc = "done" /\ stop = "fallback")
    => /\ api_result = Prefix(ConcatAds(fb_log), max_results)
       /\ \A k \in 1..Len(fb_log) : fb_log[k].start = (k - 1) * ResultsPerPage

\* The fetch failed after ads had been accumulated, and the fallback, two
\* pages long, returned a list without the first accumulated ad.
C30_Witness ==
    /\ pc = "done"
    /\ stop = "fallback"
    /\ all_ad_ids # <<>>
    /\ Len(fb_log) = 2
    /\ api_result # <<>>
    /\ all_ad_ids[1] \notin Range(api_result)

\* ---------------------------------------------------------------------------
\* A step that fetched a listing page.
FetchStep == Len(fetchLog') = Len(fetchLog) + 1

\* C25: when a listing fetch returns no data, at whatever page of the walk,
\* scrape_search_pages stops at once and returns exactly the ids accumulated
\* from the earlier pages.
C25_FailedFetchReturnsAccumulated ==
    [][(FetchStep /\ data'.kind = "none")
        => (/\ pc' = "done"
            /\ stop' = "fetch_failed"
            /\ all_ad_ids' = all_ad_ids
            /\ page_num' = page_num)]_vars

\* The third fetch of a walk failed after two ids had been accumulated.
C25_Witness ==
    /\ pc = "done"
    /\ stop = "fetch_failed"
    /\ data.kind = "none"
    /\ Len(fetchLog) = 3
    /\ Len(all_ad_ids) = 2

\* ---------------------------------------------------------------------------
\* The fetched page holds no ad id and no continuation token.
EmptyLastPage ==
    FetchStep /\ data'.kind = "page" /\ ExtractAdIds(data'.matches) = <<>>
    /\ ~Truthy(data'.token)

\* The fetched page holds no ad id and a continuation token no fetch has used.
EmptyPageFreshToken ==
    FetchStep /\ data'.kind = "page" /\ ExtractAdIds(data'.matches) = <<>>
    /\ Truthy(data'.token) /\ data'.token \notin seen_tokens'

\* The walk goes on and its next fetch uses the token of the page.
WalkGoesOnWithToken ==
    /\ pc' = "loop"
    /\ pagination_token' = data'.token
    /\ LoopCondition(all_ad_ids', max_results)
    /\ ~TokenAlreadySeen(pagination_token', seen_tokens')

\* C27 as stated: a page without ad ids and without a continuation token is
\* the natural end of the walk; a page without ad ids whose continuation
\* token was not seen before never ends the walk, and the next fetch uses
\* that token.
C27_Original ==
    /\ [][EmptyLastPage => (pc' = "done" /\ stop' = "end_of_results")]_vars
    /\ [][EmptyPageFreshToken => WalkGoesOnWithToken]_vars
    /\ [][FetchStep => fetchLog'[Len(fetchLog')] = pagination_token]_vars

\* C27 (amended): as above, except that the page numbered 100 ends the walk
\* at the page ceiling even when it carries an unseen continuation token.
C27_EmptyPageEndsOnlyWithoutToken ==
    /\ [][EmptyLastPage => (pc' = "done" /\ stop' = "end_of_results")]_vars
    /\ [][(EmptyPageFreshToken /\ page_num < MaxPages) => WalkGoesOnWithToken]_vars
    /\ [][(EmptyPageFreshToken /\ page_num = MaxPages)
            => (pc' = "done" /\ stop' = "safety_limit")]_vars
    /\ [][FetchStep => fetchLog'[Len(fetchLog')] = pagination_token]_vars

\* After an id had been collected, a page without ad ids handed out an
\* unseen token and the walk is about to fetch with it.
C27_Witness ==
    /\ pc = "loop"
    /\ data.kind = "page"
    /\ data.matches = <<>>
    /\ Truthy(data.token)
    /\ pagination_token = data.token
    /\ pagination_token \notin seen_tokens
    /\ all_ad_ids # <<>>
    /\ Len(fetchLog) >= 2

\* ---------------------------------------------------------------------------
\* C29: a page fetched with a non-empty token that holds at least one ad id
\* and adds no id to the accumulated list ends the walk, even when the token
\* had never been used before and the response carries a fresh token.
C29_KnownIdsPageStops ==
    [][(/\ FetchStep
        /\ Truthy(pagination_token)
        /\ data'.kind = "page"
        /\ ExtractAdIds(data'.matches) # <<>>
        /\ all_ad_ids' = all_ad_ids)
        => (pc' = "done" /\ stop' = "no_new_ads")]_vars

\* A page of known ids, fetched with a token (used for the first time),
\* ended the walk although it carried a token not used by any fetch.
C29_Witness ==
    /\ pc = "done"
    /\ stop = "no_new_ads"
    /\ Truthy(LastFetched)
    /\ LastFetched \notin Range(Prefix(fetchLog, Len(fetchLog) - 1))
    /\ Truthy(data.token)
    /\ data.token \notin seen_tokens

\* ---------------------------------------------------------------------------
\* A step of _make_request that sent a request with the given outcome.
Sent(outcomes) ==
    /\ Len(sent') = Len(sent) + 1
    /\ sent'[Len(sent')].outcome \in outcomes

\* C28: a call of _make_request sends at most 3 HTTP requests whatever the
\* responses and errors; after a 429 or 503 it waits, and after a request
\* exception that is not the last attempt's it waits, and tries again
\* through the same proxy; after a proxy error that is not the last
\* attempt's it tries again through the next proxy of the rotation; it
\* returns a response only when that response has status 200 and otherwise
\* returns None.
C28_BoundedRequestRetry ==
    /\ [](Len(sent) <= 3)
    /\ [](mpc = "done"
          => /\ m_result.kind \in {"response", "none"}
             /\ m_result.kind = "response"
                <=> (sent # <<>> /\ sent[Len(sent)].outcome = "200"))
    /\ [][Sent({"429", "503"})
            => /\ slept' = Append(slept, (attempt + 1) * 2)
               /\ proxy' = proxy
               /\ attempt < 2 => mpc' = "request"]_vars
    /\ [][(Sent({"request_exception"}) /\ attempt < 2)
            => (slept' = Append(slept, 1) /\ proxy' = proxy /\ mpc' = "request")]_vars
    /\ [][(Sent({"proxy_error"}) /\ attempt < 2)
            => /\ mpc' = "request"
               /\ slept' = slept
               /\ proxies > 0 => proxy' = (proxy % proxies) + 1]_vars
    /\ [][(Sent({"proxy_error", "request_exception"}) /\ attempt = 2)
            => (mpc' = "done" /\ m_result'.kind = "none")]_vars

\* Three requests were sent: a proxy error moved the call to the next proxy,
\* a 429 was waited out, and the third request was answered with 200.
C28_Witness ==
    /\ mpc = "done"
    /\ Len(sent) = 3
    /\ sent[1].outcome = "proxy_error"
    /\ sent[2].outcome = "429"
    /\ sent[2].proxy # sent[1].proxy
    /\ sent[3].outcome = "200"
    /\ m_result.kind = "response"
    /\ slept = <<4>>

\* ---------------------------------------------------------------------------
\* The type the asset-shape heuristics give a bundle.
TypeOfAssets(assets) ==
    IF assets.videos # <<>> THEN "Video Ad"
    ELSE IF Len(assets.images) > 1 THEN "Carousel Ad"
    ELSE IF Len(assets.images) = 1 THEN "Image Ad"
    ELSE "none"

\* C23: when the text of a detail page holds no explicit ad-type marker,
\* scrape_ad_detail_with_bs4 sets ad_type from the assets found on that
\* page: 'Video Ad' with a video, 'Carousel Ad' with more than one image,
\* 'Image Ad' with exactly one image, unknown otherwise.
C23_TypeInferredFromPageAssets ==
    (fn_out.op = "detail" /\ fn_in.page.marker = "none")
    => fn_out.detail.ad_type = TypeOfAssets(fn_in.page.assets)

\* ---------------------------------------------------------------------------
\* Position i holds the first '#' of the token.
FirstHashAt(token, i) == token[i] = "#" /\ \A j \in 1..(i - 1) : token[j] # "#"

\* The token holds a '#' and the text before its first '#' is an integer.
OffsetStyle(token) ==
    \E i \in 1..Len(token) :
        FirstHashAt(token, i) /\ ParseInt(SubSeq(token, 1, i - 1)).ok

\* The integer before the first '#' of an offset-style token.
OffsetOf(token) ==
    LET i == CHOOSE k \in 1..Len(token) : FirstHashAt(token, k)
    IN  ParseInt(SubSeq(token, 1, i - 1)).value

\* C26: a token is offset-style, with the integer before its first '#' as
\* start offset, exactly when it holds a '#' and that prefix parses as an
\* integer; every other non-empty token goes back verbatim to the token
\* endpoint; an absent token gives a first-page fetch without a token.
C26_TokenClassification ==
    fn_out.op = "token"
    => LET token == fn_in.token
       IN  /\ fn_out.mode = "offset" <=> (token # NoneText /\ OffsetStyle(token))
           /\ fn_out.mode = "offset"
              => fn_out.fetch = [endpoint |-> "search", param |-> "start",
                                 sent |-> [kind |-> "int", n |-> OffsetOf(token)]]
           /\ (fn_out.mode # "offset" /\ token # NoneText /\ token # <<>>)
              => fn_out.fetch = [endpoint |-> "api", param |-> "paginationToken",
                                 sent |-> [kind |-> "text", text |-> token]]
           /\ (token = NoneText \/ token = <<>>)
              => fn_out.fetch = [endpoint |-> "api", param |-> "none",
                                 sent |-> [kind |-> "none"]]

\* A token with two separators whose first prefix is a number was taken as
\* an offset.
C26_Witness ==
    /\ fn_out.op = "token"
    /\ fn_in.token = <<"1", "#", "#">>
    /\ fn_out.mode = "offset"
    /\ fn_out.value.n = 1

\* ---------------------------------------------------------------------------
\* C24: a malformed asset URL never aborts the pipeline: its identity is the
\* raw URL, and materializing an item that has one unparsable asset URL
\* returns normally, so that the run goes on to the next item.
C24_MalformedUrlNeverAborts ==
    /\ \A kind \in {"logo", "image", "video", "poster"} :
           IdentityOrRaw(BadUrl, kind) = BadUrl
    /\ ~aborted

====
